---- MODULE Spec2Model ----
(***************************************************************************)
(* A model of the task-search overlay (TaskSearchModal, src/main.ts).      *)
(*                                                                         *)
(* Text is modelled as a sequence of one-character strings; a document's   *)
(* content is one such sequence with "\n" between its lines, exactly as    *)
(* the vault hands it to the code.  Task objects live in `tasks` and are   *)
(* referred to by their position there: `filteredTasks`, the rendered rows *)
(* and the in-flight completion handlers hold references, as the           *)
(* JavaScript arrays and closures do.                                      *)
(***************************************************************************)
EXTENDS Integers, Sequences, FiniteSets, TLC

\* ------------------------------------------------------------- bounds

\* Completion handlers (handleTaskCompletion calls) that may be suspended
\* at an await at the same time.
MaxOps == 1

\* Timer handles that the model can tell apart.
MaxTimers == 2

\* Length of one clock tick in milliseconds.
TickMs == 150

\* Completion handlers that may be suspended at the same time in the
\* sessions that look at their races.
MaxRacing == 2

\* openSelectedTask calls that may be suspended at the same time.
MaxOpening == 1

\* The delay passed to setTimeout in debouncedSearch.
DebounceMs == 300

\* ------------------------------------------------------- text helpers

NL == "\n"

\* Four white-space characters that have no escape and are written here
\* as themselves: U+000B (line tabulation), U+00A0 (no-break space),
\* U+1680 (ogham space mark) and U+FEFF (zero width no-break space).
VT == ""
NBSP == " "
OGHAM == " "
BOM == "﻿"

\* The characters JavaScript's \s and trim() treat as white space: the
\* WhiteSpace and LineTerminator productions of ECMAScript.  The others of
\* the class, U+2000 to U+200A, U+2028, U+2029, U+202F, U+205F and U+3000,
\* cannot be written in a string of this language, so no text of the model
\* can hold them.
WhiteSpace == {" ", "\t", "\n", "\r", "\f", VT, NBSP, OGHAM, BOM}

IsSpace(c) == c \in WhiteSpace

\* The letters String.prototype.toLowerCase changes and, position by
\* position, what it makes of them (Unicode 17): all of those that a string
\* of this language can hold, which are the characters below U+0100 other
\* than the double quote, the backslash and the grave accent, and those
\* from U+0100 on whose low byte is 0x80 or more.  An image that cannot be
\* written so is named by its code point, as in "U+0253"; no text can hold
\* such a character, so the name stands for it without clash.
UpperCase ==
  <<"A", "B", "C", "D", "E", "F", "G", "H", "I", "J", "K", "L", "M", "N",
   "O", "P", "Q", "R", "S", "T", "U", "V", "W", "X", "Y", "Z", "À", "Á", "Â",
   "Ã", "Ä", "Å", "Æ", "Ç", "È", "É", "Ê", "Ë", "Ì", "Í", "Î", "Ï", "Ð", "Ñ",
   "Ò", "Ó", "Ô", "Õ", "Ö", "Ø", "Ù", "Ú", "Û", "Ü", "Ý", "Þ", "Ɓ", "Ƃ", "Ƅ",
   "Ɔ", "Ƈ", "Ɖ", "Ɗ", "Ƌ", "Ǝ", "Ə", "Ɛ", "Ƒ", "Ɠ", "Ɣ", "Ɩ", "Ɨ", "Ƙ", "Ɯ",
   "Ɲ", "Ɵ", "Ơ", "Ƣ", "Ƥ", "Ʀ", "Ƨ", "Ʃ", "Ƭ", "Ʈ", "Ư", "Ʊ", "Ʋ", "Ƴ", "Ƶ",
   "Ʒ", "Ƹ", "Ƽ", "Ǆ", "ǅ", "Ǉ", "ǈ", "Ǌ", "ǋ", "Ǎ", "Ǐ", "Ǒ", "Ǔ", "Ǖ", "Ǘ",
   "Ǚ", "Ǜ", "Ǟ", "Ǡ", "Ǣ", "Ǥ", "Ǧ", "Ǩ", "Ǫ", "Ǭ", "Ǯ", "Ǳ", "ǲ", "Ǵ", "Ƕ",
   "Ƿ", "Ǹ", "Ǻ", "Ǽ", "Ǿ", "Ά", "Έ", "Ή", "Ί", "Ό", "Ύ", "Ώ", "Α", "Β", "Γ",
   "Δ", "Ε", "Ζ", "Η", "Θ", "Ι", "Κ", "Λ", "Μ", "Ν", "Ξ", "Ο", "Π", "Ρ", "Σ",
   "Τ", "Υ", "Φ", "Χ", "Ψ", "Ω", "Ϊ", "Ϋ", "Ϗ", "Ϙ", "Ϛ", "Ϝ", "Ϟ", "Ϡ", "Ϣ",
   "Ϥ", "Ϧ", "Ϩ", "Ϫ", "Ϭ", "Ϯ", "ϴ", "Ϸ", "Ϲ", "Ϻ", "Ͻ", "Ͼ", "Ͽ", "Ҁ", "Ҋ",
   "Ҍ", "Ҏ", "Ґ", "Ғ", "Ҕ", "Җ", "Ҙ", "Қ", "Ҝ", "Ҟ", "Ҡ", "Ң", "Ҥ", "Ҧ", "Ҩ",
   "Ҫ", "Ҭ", "Ү", "Ұ", "Ҳ", "Ҵ", "Ҷ", "Ҹ", "Һ", "Ҽ", "Ҿ", "Ӏ", "Ӂ", "Ӄ", "Ӆ",
   "Ӈ", "Ӊ", "Ӌ", "Ӎ", "Ӑ", "Ӓ", "Ӕ", "Ӗ", "Ә", "Ӛ", "Ӝ", "Ӟ", "Ӡ", "Ӣ", "Ӥ",
   "Ӧ", "Ө", "Ӫ", "Ӭ", "Ӯ", "Ӱ", "Ӳ", "Ӵ", "Ӷ", "Ӹ", "Ӻ", "Ӽ", "Ӿ", "Ⴀ", "Ⴁ",
   "Ⴂ", "Ⴃ", "Ⴄ", "Ⴅ", "Ⴆ", "Ⴇ", "Ⴈ", "Ⴉ", "Ⴊ", "Ⴋ", "Ⴌ", "Ⴍ", "Ⴎ", "Ⴏ", "Ⴐ",
   "Ⴑ", "Ⴒ", "Ⴓ", "Ⴔ", "Ⴕ", "Ⴖ", "Ⴗ", "Ⴘ", "Ⴙ", "Ⴚ", "Ⴛ", "Ⴜ", "Ⴝ", "Ⴞ", "Ⴟ",
   "Ⴠ", "Ⴡ", "Ⴢ", "Ⴣ", "Ⴤ", "Ⴥ", "Ⴧ", "Ⴭ", "Ꭰ", "Ꭱ", "Ꭲ", "Ꭳ", "Ꭴ", "Ꭵ", "Ꭶ",
   "Ꭷ", "Ꭸ", "Ꭹ", "Ꭺ", "Ꭻ", "Ꭼ", "Ꭽ", "Ꭾ", "Ꭿ", "Ꮀ", "Ꮁ", "Ꮂ", "Ꮃ", "Ꮄ", "Ꮅ",
   "Ꮆ", "Ꮇ", "Ꮈ", "Ꮉ", "Ꮊ", "Ꮋ", "Ꮌ", "Ꮍ", "Ꮎ", "Ꮏ", "Ꮐ", "Ꮑ", "Ꮒ", "Ꮓ", "Ꮔ",
   "Ꮕ", "Ꮖ", "Ꮗ", "Ꮘ", "Ꮙ", "Ꮚ", "Ꮛ", "Ꮜ", "Ꮝ", "Ꮞ", "Ꮟ", "Ꮠ", "Ꮡ", "Ꮢ", "Ꮣ",
   "Ꮤ", "Ꮥ", "Ꮦ", "Ꮧ", "Ꮨ", "Ꮩ", "Ꮪ", "Ꮫ", "Ꮬ", "Ꮭ", "Ꮮ", "Ꮯ", "Ꮰ", "Ꮱ", "Ꮲ",
   "Ꮳ", "Ꮴ", "Ꮵ", "Ꮶ", "Ꮷ", "Ꮸ", "Ꮹ", "Ꮺ", "Ꮻ", "Ꮼ", "Ꮽ", "Ꮾ", "Ꮿ", "Ᏸ", "Ᏹ",
   "Ᏺ", "Ᏻ", "Ᏼ", "Ᏽ", "Ᲊ", "Ა", "Ბ", "Გ", "Დ", "Ე", "Ვ", "Ზ", "Თ", "Ი", "Კ",
   "Ლ", "Მ", "Ნ", "Ო", "Პ", "Ჟ", "Რ", "Ს", "Ტ", "Უ", "Ფ", "Ქ", "Ღ", "Ყ", "Შ",
   "Ჩ", "Ც", "Ძ", "Წ", "Ჭ", "Ხ", "Ჯ", "Ჰ", "Ჱ", "Ჲ", "Ჳ", "Ჴ", "Ჵ", "Ჶ", "Ჷ",
   "Ჸ", "Ჹ", "Ჺ", "Ჽ", "Ჾ", "Ჿ", "Ẁ", "Ẃ", "Ẅ", "Ẇ", "Ẉ", "Ẋ", "Ẍ", "Ẏ", "Ẑ",
   "Ẓ", "Ẕ", "ẞ", "Ạ", "Ả", "Ấ", "Ầ", "Ẩ", "Ẫ", "Ậ", "Ắ", "Ằ", "Ẳ", "Ẵ", "Ặ",
   "Ẹ", "Ẻ", "Ẽ", "Ế", "Ề", "Ể", "Ễ", "Ệ", "Ỉ", "Ị", "Ọ", "Ỏ", "Ố", "Ồ", "Ổ",
   "Ỗ", "Ộ", "Ớ", "Ờ", "Ở", "Ỡ", "Ợ", "Ụ", "Ủ", "Ứ", "Ừ", "Ử", "Ữ", "Ự", "Ỳ",
   "Ỵ", "Ỷ", "Ỹ", "Ỻ", "Ỽ", "Ỿ", "ᾈ", "ᾉ", "ᾊ", "ᾋ", "ᾌ", "ᾍ", "ᾎ", "ᾏ", "ᾘ",
   "ᾙ", "ᾚ", "ᾛ", "ᾜ", "ᾝ", "ᾞ", "ᾟ", "ᾨ", "ᾩ", "ᾪ", "ᾫ", "ᾬ", "ᾭ", "ᾮ", "ᾯ",
   "Ᾰ", "Ᾱ", "Ὰ", "Ά", "ᾼ", "Ὲ", "Έ", "Ὴ", "Ή", "ῌ", "Ῐ", "Ῑ", "Ὶ", "Ί", "Ῠ",
   "Ῡ", "Ὺ", "Ύ", "Ῥ", "Ὸ", "Ό", "Ὼ", "Ώ", "ῼ", "Ↄ", "Ⓐ", "Ⓑ", "Ⓒ", "Ⓓ", "Ⓔ",
   "Ⓕ", "Ⓖ", "Ⓗ", "Ⓘ", "Ⓙ", "Ⓚ", "Ⓛ", "Ⓜ", "Ⓝ", "Ⓞ", "Ⓟ", "Ⓠ", "Ⓡ", "Ⓢ", "Ⓣ",
   "Ⓤ", "Ⓥ", "Ⓦ", "Ⓧ", "Ⓨ", "Ⓩ", "Ⲁ", "Ⲃ", "Ⲅ", "Ⲇ", "Ⲉ", "Ⲋ", "Ⲍ", "Ⲏ", "Ⲑ",
   "Ⲓ", "Ⲕ", "Ⲗ", "Ⲙ", "Ⲛ", "Ⲝ", "Ⲟ", "Ⲡ", "Ⲣ", "Ⲥ", "Ⲧ", "Ⲩ", "Ⲫ", "Ⲭ", "Ⲯ",
   "Ⲱ", "Ⲳ", "Ⲵ", "Ⲷ", "Ⲹ", "Ⲻ", "Ⲽ", "Ⲿ", "Ⳁ", "Ⳃ", "Ⳅ", "Ⳇ", "Ⳉ", "Ⳋ", "Ⳍ",
   "Ⳏ", "Ⳑ", "Ⳓ", "Ⳕ", "Ⳗ", "Ⳙ", "Ⳛ", "Ⳝ", "Ⳟ", "Ⳡ", "Ⳣ", "Ⳬ", "Ⳮ", "Ⳳ", "Ꚁ",
   "Ꚃ", "Ꚅ", "Ꚇ", "Ꚉ", "Ꚋ", "Ꚍ", "Ꚏ", "Ꚑ", "Ꚓ", "Ꚕ", "Ꚗ", "Ꚙ", "Ꚛ", "Ꞁ", "Ꞃ",
   "Ꞅ", "Ꞇ", "Ꞌ", "Ɥ", "Ꞑ", "Ꞓ", "Ꞗ", "Ꞙ", "Ꞛ", "Ꞝ", "Ꞟ", "Ꞡ", "Ꞣ", "Ꞥ", "Ꞧ",
   "Ꞩ", "Ɦ", "Ɜ", "Ɡ", "Ɬ", "Ɪ", "Ʞ", "Ʇ", "Ʝ", "Ꭓ", "Ꞵ", "Ꞷ", "Ꞹ", "Ꞻ", "Ꞽ",
   "Ꞿ", "Ꟁ", "Ꟃ", "Ꞔ", "Ʂ", "Ᶎ", "Ꟈ", "Ꟊ", "Ɤ", "Ꟍ", "꟎", "Ꟑ", "꟒", "꟔", "Ꟗ",
   "Ꟙ", "Ꟛ", "Ƛ", "Ꟶ">>

LowerCase ==
  <<"a", "b", "c", "d", "e", "f", "g", "h", "i", "j", "k", "l", "m", "n",
   "o", "p", "q", "r", "s", "t", "u", "v", "w", "x", "y", "z", "à", "á", "â",
   "ã", "ä", "å", "æ", "ç", "è", "é", "ê", "ë", "ì", "í", "î", "ï", "ð", "ñ",
   "ò", "ó", "ô", "õ", "ö", "ø", "ù", "ú", "û", "ü", "ý", "þ", "U+0253", "ƃ",
   "ƅ", "U+0254", "ƈ", "U+0256", "U+0257", "ƌ", "ǝ", "U+0259", "U+025B", "ƒ",
   "U+0260", "U+0263", "U+0269", "U+0268", "ƙ", "U+026F", "U+0272", "U+0275",
   "ơ", "ƣ", "ƥ", "ʀ", "ƨ", "ʃ", "ƭ", "ʈ", "ư", "ʊ", "ʋ", "ƴ", "ƶ", "ʒ", "ƹ",
   "ƽ", "ǆ", "ǆ", "ǉ", "ǉ", "ǌ", "ǌ", "ǎ", "ǐ", "ǒ", "ǔ", "ǖ", "ǘ", "ǚ", "ǜ",
   "ǟ", "ǡ", "ǣ", "ǥ", "ǧ", "ǩ", "ǫ", "ǭ", "ǯ", "ǳ", "ǳ", "ǵ", "ƕ", "ƿ", "ǹ",
   "ǻ", "ǽ", "ǿ", "ά", "έ", "ή", "ί", "ό", "ύ", "ώ", "α", "β", "γ", "δ", "ε",
   "ζ", "η", "θ", "ι", "κ", "λ", "μ", "ν", "ξ", "ο", "π", "ρ", "σ", "τ", "υ",
   "φ", "χ", "ψ", "ω", "ϊ", "ϋ", "ϗ", "ϙ", "ϛ", "ϝ", "ϟ", "ϡ", "ϣ", "ϥ", "ϧ",
   "ϩ", "ϫ", "ϭ", "ϯ", "θ", "ϸ", "ϲ", "ϻ", "U+037B", "U+037C", "U+037D", "ҁ",
   "ҋ", "ҍ", "ҏ", "ґ", "ғ", "ҕ", "җ", "ҙ", "қ", "ҝ", "ҟ", "ҡ", "ң", "ҥ", "ҧ",
   "ҩ", "ҫ", "ҭ", "ү", "ұ", "ҳ", "ҵ", "ҷ", "ҹ", "һ", "ҽ", "ҿ", "ӏ", "ӂ", "ӄ",
   "ӆ", "ӈ", "ӊ", "ӌ", "ӎ", "ӑ", "ӓ", "ӕ", "ӗ", "ә", "ӛ", "ӝ", "ӟ", "ӡ", "ӣ",
   "ӥ", "ӧ", "ө", "ӫ", "ӭ", "ӯ", "ӱ", "ӳ", "ӵ", "ӷ", "ӹ", "ӻ", "ӽ", "ӿ",
   "U+2D00", "U+2D01", "U+2D02", "U+2D03", "U+2D04", "U+2D05", "U+2D06",
   "U+2D07", "U+2D08", "U+2D09", "U+2D0A", "U+2D0B", "U+2D0C", "U+2D0D",
   "U+2D0E", "U+2D0F", "U+2D10", "U+2D11", "U+2D12", "U+2D13", "U+2D14",
   "U+2D15", "U+2D16", "U+2D17", "U+2D18", "U+2D19", "U+2D1A", "U+2D1B",
   "U+2D1C", "U+2D1D", "U+2D1E", "U+2D1F", "U+2D20", "U+2D21", "U+2D22",
   "U+2D23", "U+2D24", "U+2D25", "U+2D27", "U+2D2D", "U+AB70", "U+AB71",
   "U+AB72", "U+AB73", "U+AB74", "U+AB75", "U+AB76", "U+AB77", "U+AB78",
   "U+AB79", "U+AB7A", "U+AB7B", "U+AB7C", "U+AB7D", "U+AB7E", "U+AB7F", "ꮀ",
   "ꮁ", "ꮂ", "ꮃ", "ꮄ", "ꮅ", "ꮆ", "ꮇ", "ꮈ", "ꮉ", "ꮊ", "ꮋ", "ꮌ", "ꮍ", "ꮎ", "ꮏ",
   "ꮐ", "ꮑ", "ꮒ", "ꮓ", "ꮔ", "ꮕ", "ꮖ", "ꮗ", "ꮘ", "ꮙ", "ꮚ", "ꮛ", "ꮜ", "ꮝ", "ꮞ",
   "ꮟ", "ꮠ", "ꮡ", "ꮢ", "ꮣ", "ꮤ", "ꮥ", "ꮦ", "ꮧ", "ꮨ", "ꮩ", "ꮪ", "ꮫ", "ꮬ", "ꮭ",
   "ꮮ", "ꮯ", "ꮰ", "ꮱ", "ꮲ", "ꮳ", "ꮴ", "ꮵ", "ꮶ", "ꮷ", "ꮸ", "ꮹ", "ꮺ", "ꮻ", "ꮼ",
   "ꮽ", "ꮾ", "ꮿ", "ᏸ", "ᏹ", "ᏺ", "ᏻ", "ᏼ", "ᏽ", "ᲊ", "ა", "ბ", "გ", "დ", "ე",
   "ვ", "ზ", "თ", "ი", "კ", "ლ", "მ", "ნ", "ო", "პ", "ჟ", "რ", "ს", "ტ", "უ",
   "ფ", "ქ", "ღ", "ყ", "შ", "ჩ", "ც", "ძ", "წ", "ჭ", "ხ", "ჯ", "ჰ", "ჱ", "ჲ",
   "ჳ", "ჴ", "ჵ", "ჶ", "ჷ", "ჸ", "ჹ", "ჺ", "ჽ", "ჾ", "ჿ", "ẁ", "ẃ", "ẅ", "ẇ",
   "ẉ", "ẋ", "ẍ", "ẏ", "ẑ", "ẓ", "ẕ", "ß", "ạ", "ả", "ấ", "ầ", "ẩ", "ẫ", "ậ",
   "ắ", "ằ", "ẳ", "ẵ", "ặ", "ẹ", "ẻ", "ẽ", "ế", "ề", "ể", "ễ", "ệ", "ỉ", "ị",
   "ọ", "ỏ", "ố", "ồ", "ổ", "ỗ", "ộ", "ớ", "ờ", "ở", "ỡ", "ợ", "ụ", "ủ", "ứ",
   "ừ", "ử", "ữ", "ự", "ỳ", "ỵ", "ỷ", "ỹ", "ỻ", "ỽ", "ỿ", "ᾀ", "ᾁ", "ᾂ", "ᾃ",
   "ᾄ", "ᾅ", "ᾆ", "ᾇ", "ᾐ", "ᾑ", "ᾒ", "ᾓ", "ᾔ", "ᾕ", "ᾖ", "ᾗ", "ᾠ", "ᾡ", "ᾢ",
   "ᾣ", "ᾤ", "ᾥ", "ᾦ", "ᾧ", "ᾰ", "ᾱ", "U+1F70", "U+1F71", "ᾳ", "U+1F72",
   "U+1F73", "U+1F74", "U+1F75", "ῃ", "ῐ", "ῑ", "U+1F76", "U+1F77", "ῠ", "ῡ",
   "U+1F7A", "U+1F7B", "ῥ", "U+1F78", "U+1F79", "U+1F7C", "U+1F7D", "ῳ", "ↄ",
   "ⓐ", "ⓑ", "ⓒ", "ⓓ", "ⓔ", "ⓕ", "ⓖ", "ⓗ", "ⓘ", "ⓙ", "ⓚ", "ⓛ", "ⓜ", "ⓝ", "ⓞ",
   "ⓟ", "ⓠ", "ⓡ", "ⓢ", "ⓣ", "ⓤ", "ⓥ", "ⓦ", "ⓧ", "ⓨ", "ⓩ", "ⲁ", "ⲃ", "ⲅ", "ⲇ",
   "ⲉ", "ⲋ", "ⲍ", "ⲏ", "ⲑ", "ⲓ", "ⲕ", "ⲗ", "ⲙ", "ⲛ", "ⲝ", "ⲟ", "ⲡ", "ⲣ", "ⲥ",
   "ⲧ", "ⲩ", "ⲫ", "ⲭ", "ⲯ", "ⲱ", "ⲳ", "ⲵ", "ⲷ", "ⲹ", "ⲻ", "ⲽ", "ⲿ", "ⳁ", "ⳃ",
   "ⳅ", "ⳇ", "ⳉ", "ⳋ", "ⳍ", "ⳏ", "ⳑ", "ⳓ", "ⳕ", "ⳗ", "ⳙ", "ⳛ", "ⳝ", "ⳟ", "ⳡ",
   "ⳣ", "ⳬ", "ⳮ", "ⳳ", "ꚁ", "ꚃ", "ꚅ", "ꚇ", "ꚉ", "ꚋ", "ꚍ", "ꚏ", "ꚑ", "ꚓ", "ꚕ",
   "ꚗ", "ꚙ", "ꚛ", "ꞁ", "ꞃ", "ꞅ", "ꞇ", "ꞌ", "U+0265", "ꞑ", "ꞓ", "ꞗ", "ꞙ", "ꞛ",
   "ꞝ", "ꞟ", "ꞡ", "ꞣ", "ꞥ", "ꞧ", "ꞩ", "U+0266", "U+025C", "U+0261", "U+026C",
   "U+026A", "ʞ", "ʇ", "ʝ", "U+AB53", "ꞵ", "ꞷ", "ꞹ", "ꞻ", "ꞽ", "ꞿ", "ꟁ", "ꟃ",
   "ꞔ", "ʂ", "ᶎ", "ꟈ", "ꟊ", "U+0264", "ꟍ", "꟏", "ꟑ", "ꟓ", "ꟕ", "ꟗ", "ꟙ", "ꟛ",
   "ƛ", "ꟶ">>

\* The same as a function from the letter to its image.
LowerOf ==
  [c \in {UpperCase[i] : i \in 1..Len(UpperCase)} |->
     LowerCase[CHOOSE i \in 1..Len(UpperCase) : UpperCase[i] = c]]

\* String.prototype.toLowerCase, one character by itself.
LowerChar(c) == IF c \in DOMAIN LowerOf THEN LowerOf[c] ELSE c

\* The characters with the Unicode properties Cased and Case_Ignorable,
\* which decide whether a capital sigma stands at the end of a word.
Cased ==
  {"A", "B", "C", "D", "E", "F", "G", "H", "I", "J", "K", "L", "M", "N", "O",
   "P", "Q", "R", "S", "T", "U", "V", "W", "X", "Y", "Z", "a", "b", "c", "d",
   "e", "f", "g", "h", "i", "j", "k", "l", "m", "n", "o", "p", "q", "r", "s",
   "t", "u", "v", "w", "x", "y", "z", "ª", "µ", "º", "À", "Á", "Â", "Ã", "Ä",
   "Å", "Æ", "Ç", "È", "É", "Ê", "Ë", "Ì", "Í", "Î", "Ï", "Ð", "Ñ", "Ò", "Ó",
   "Ô", "Õ", "Ö", "Ø", "Ù", "Ú", "Û", "Ü", "Ý", "Þ", "ß", "à", "á", "â", "ã",
   "ä", "å", "æ", "ç", "è", "é", "ê", "ë", "ì", "í", "î", "ï", "ð", "ñ", "ò",
   "ó", "ô", "õ", "ö", "ø", "ù", "ú", "û", "ü", "ý", "þ", "ÿ", "ƀ", "Ɓ", "Ƃ",
   "ƃ", "Ƅ", "ƅ", "Ɔ", "Ƈ", "ƈ", "Ɖ", "Ɗ", "Ƌ", "ƌ", "ƍ", "Ǝ", "Ə", "Ɛ", "Ƒ",
   "ƒ", "Ɠ", "Ɣ", "ƕ", "Ɩ", "Ɨ", "Ƙ", "ƙ", "ƚ", "ƛ", "Ɯ", "Ɲ", "ƞ", "Ɵ", "Ơ",
   "ơ", "Ƣ", "ƣ", "Ƥ", "ƥ", "Ʀ", "Ƨ", "ƨ", "Ʃ", "ƪ", "ƫ", "Ƭ", "ƭ", "Ʈ", "Ư",
   "ư", "Ʊ", "Ʋ", "Ƴ", "ƴ", "Ƶ", "ƶ", "Ʒ", "Ƹ", "ƹ", "ƺ", "Ƽ", "ƽ", "ƾ", "ƿ",
   "Ǆ", "ǅ", "ǆ", "Ǉ", "ǈ", "ǉ", "Ǌ", "ǋ", "ǌ", "Ǎ", "ǎ", "Ǐ", "ǐ", "Ǒ", "ǒ",
   "Ǔ", "ǔ", "Ǖ", "ǖ", "Ǘ", "ǘ", "Ǚ", "ǚ", "Ǜ", "ǜ", "ǝ", "Ǟ", "ǟ", "Ǡ", "ǡ",
   "Ǣ", "ǣ", "Ǥ", "ǥ", "Ǧ", "ǧ", "Ǩ", "ǩ", "Ǫ", "ǫ", "Ǭ", "ǭ", "Ǯ", "ǯ", "ǰ",
   "Ǳ", "ǲ", "ǳ", "Ǵ", "ǵ", "Ƕ", "Ƿ", "Ǹ", "ǹ", "Ǻ", "ǻ", "Ǽ", "ǽ", "Ǿ", "ǿ",
   "ʀ", "ʁ", "ʂ", "ʃ", "ʄ", "ʅ", "ʆ", "ʇ", "ʈ", "ʉ", "ʊ", "ʋ", "ʌ", "ʍ", "ʎ",
   "ʏ", "ʐ", "ʑ", "ʒ", "ʓ", "ʖ", "ʗ", "ʘ", "ʙ", "ʚ", "ʛ", "ʜ", "ʝ", "ʞ", "ʟ",
   "ʠ", "ʡ", "ʢ", "ʣ", "ʤ", "ʥ", "ʦ", "ʧ", "ʨ", "ʩ", "ʪ", "ʫ", "ʬ", "ʭ", "ʮ",
   "ʯ", "ʰ", "ʱ", "ʲ", "ʳ", "ʴ", "ʵ", "ʶ", "ʷ", "ʸ", "ˀ", "ˁ", "ˠ", "ˡ", "ˢ",
   "ˣ", "ˤ", "Ά", "Έ", "Ή", "Ί", "Ό", "Ύ", "Ώ", "ΐ", "Α", "Β", "Γ", "Δ", "Ε",
   "Ζ", "Η", "Θ", "Ι", "Κ", "Λ", "Μ", "Ν", "Ξ", "Ο", "Π", "Ρ", "Σ", "Τ", "Υ",
   "Φ", "Χ", "Ψ", "Ω", "Ϊ", "Ϋ", "ά", "έ", "ή", "ί", "ΰ", "α", "β", "γ", "δ",
   "ε", "ζ", "η", "θ", "ι", "κ", "λ", "μ", "ν", "ξ", "ο", "π", "ρ", "ς", "σ",
   "τ", "υ", "φ", "χ", "ψ", "ω", "ϊ", "ϋ", "ό", "ύ", "ώ", "Ϗ", "ϐ", "ϑ", "ϒ",
   "ϓ", "ϔ", "ϕ", "ϖ", "ϗ", "Ϙ", "ϙ", "Ϛ", "ϛ", "Ϝ", "ϝ", "Ϟ", "ϟ", "Ϡ", "ϡ",
   "Ϣ", "ϣ", "Ϥ", "ϥ", "Ϧ", "ϧ", "Ϩ", "ϩ", "Ϫ", "ϫ", "Ϭ", "ϭ", "Ϯ", "ϯ", "ϰ",
   "ϱ", "ϲ", "ϳ", "ϴ", "ϵ", "Ϸ", "ϸ", "Ϲ", "Ϻ", "ϻ", "ϼ", "Ͻ", "Ͼ", "Ͽ", "Ҁ",
   "ҁ", "Ҋ", "ҋ", "Ҍ", "ҍ", "Ҏ", "ҏ", "Ґ", "ґ", "Ғ", "ғ", "Ҕ", "ҕ", "Җ", "җ",
   "Ҙ", "ҙ", "Қ", "қ", "Ҝ", "ҝ", "Ҟ", "ҟ", "Ҡ", "ҡ", "Ң", "ң", "Ҥ", "ҥ", "Ҧ",
   "ҧ", "Ҩ", "ҩ", "Ҫ", "ҫ", "Ҭ", "ҭ", "Ү", "ү", "Ұ", "ұ", "Ҳ", "ҳ", "Ҵ", "ҵ",
   "Ҷ", "ҷ", "Ҹ", "ҹ", "Һ", "һ", "Ҽ", "ҽ", "Ҿ", "ҿ", "Ӏ", "Ӂ", "ӂ", "Ӄ", "ӄ",
   "Ӆ", "ӆ", "Ӈ", "ӈ", "Ӊ", "ӊ", "Ӌ", "ӌ", "Ӎ", "ӎ", "ӏ", "Ӑ", "ӑ", "Ӓ", "ӓ",
   "Ӕ", "ӕ", "Ӗ", "ӗ", "Ә", "ә", "Ӛ", "ӛ", "Ӝ", "ӝ", "Ӟ", "ӟ", "Ӡ", "ӡ", "Ӣ",
   "ӣ", "Ӥ", "ӥ", "Ӧ", "ӧ", "Ө", "ө", "Ӫ", "ӫ", "Ӭ", "ӭ", "Ӯ", "ӯ", "Ӱ", "ӱ",
   "Ӳ", "ӳ", "Ӵ", "ӵ", "Ӷ", "ӷ", "Ӹ", "ӹ", "Ӻ", "ӻ", "Ӽ", "ӽ", "Ӿ", "ӿ", "ր",
   "ց", "ւ", "փ", "ք", "օ", "ֆ", "և", "ֈ", "Ⴀ", "Ⴁ", "Ⴂ", "Ⴃ", "Ⴄ", "Ⴅ", "Ⴆ",
   "Ⴇ", "Ⴈ", "Ⴉ", "Ⴊ", "Ⴋ", "Ⴌ", "Ⴍ", "Ⴎ", "Ⴏ", "Ⴐ", "Ⴑ", "Ⴒ", "Ⴓ", "Ⴔ", "Ⴕ",
   "Ⴖ", "Ⴗ", "Ⴘ", "Ⴙ", "Ⴚ", "Ⴛ", "Ⴜ", "Ⴝ", "Ⴞ", "Ⴟ", "Ⴠ", "Ⴡ", "Ⴢ", "Ⴣ", "Ⴤ",
   "Ⴥ", "Ⴧ", "Ⴭ", "ა", "ბ", "გ", "დ", "ე", "ვ", "ზ", "თ", "ი", "კ", "ლ", "მ",
   "ნ", "ო", "პ", "ჟ", "რ", "ს", "ტ", "უ", "ფ", "ქ", "ღ", "ყ", "შ", "ჩ", "ც",
   "ძ", "წ", "ჭ", "ხ", "ჯ", "ჰ", "ჱ", "ჲ", "ჳ", "ჴ", "ჵ", "ჶ", "ჷ", "ჸ", "ჹ",
   "ჺ", "ჼ", "ჽ", "ჾ", "ჿ", "Ꭰ", "Ꭱ", "Ꭲ", "Ꭳ", "Ꭴ", "Ꭵ", "Ꭶ", "Ꭷ", "Ꭸ", "Ꭹ",
   "Ꭺ", "Ꭻ", "Ꭼ", "Ꭽ", "Ꭾ", "Ꭿ", "Ꮀ", "Ꮁ", "Ꮂ", "Ꮃ", "Ꮄ", "Ꮅ", "Ꮆ", "Ꮇ", "Ꮈ",
   "Ꮉ", "Ꮊ", "Ꮋ", "Ꮌ", "Ꮍ", "Ꮎ", "Ꮏ", "Ꮐ", "Ꮑ", "Ꮒ", "Ꮓ", "Ꮔ", "Ꮕ", "Ꮖ", "Ꮗ",
   "Ꮘ", "Ꮙ", "Ꮚ", "Ꮛ", "Ꮜ", "Ꮝ", "Ꮞ", "Ꮟ", "Ꮠ", "Ꮡ", "Ꮢ", "Ꮣ", "Ꮤ", "Ꮥ", "Ꮦ",
   "Ꮧ", "Ꮨ", "Ꮩ", "Ꮪ", "Ꮫ", "Ꮬ", "Ꮭ", "Ꮮ", "Ꮯ", "Ꮰ", "Ꮱ", "Ꮲ", "Ꮳ", "Ꮴ", "Ꮵ",
   "Ꮶ", "Ꮷ", "Ꮸ", "Ꮹ", "Ꮺ", "Ꮻ", "Ꮼ", "Ꮽ", "Ꮾ", "Ꮿ", "Ᏸ", "Ᏹ", "Ᏺ", "Ᏻ", "Ᏼ",
   "Ᏽ", "ᏸ", "ᏹ", "ᏺ", "ᏻ", "ᏼ", "ᏽ", "ᲀ", "ᲁ", "ᲂ", "ᲃ", "ᲄ", "ᲅ", "ᲆ", "ᲇ",
   "ᲈ", "Ᲊ", "ᲊ", "Ა", "Ბ", "Გ", "Დ", "Ე", "Ვ", "Ზ", "Თ", "Ი", "Კ", "Ლ", "Მ",
   "Ნ", "Ო", "Პ", "Ჟ", "Რ", "Ს", "Ტ", "Უ", "Ფ", "Ქ", "Ღ", "Ყ", "Შ", "Ჩ", "Ც",
   "Ძ", "Წ", "Ჭ", "Ხ", "Ჯ", "Ჰ", "Ჱ", "Ჲ", "Ჳ", "Ჴ", "Ჵ", "Ჶ", "Ჷ", "Ჸ", "Ჹ",
   "Ჺ", "Ჽ", "Ჾ", "Ჿ", "ᶀ", "ᶁ", "ᶂ", "ᶃ", "ᶄ", "ᶅ", "ᶆ", "ᶇ", "ᶈ", "ᶉ", "ᶊ",
   "ᶋ", "ᶌ", "ᶍ", "ᶎ", "ᶏ", "ᶐ", "ᶑ", "ᶒ", "ᶓ", "ᶔ", "ᶕ", "ᶖ", "ᶗ", "ᶘ", "ᶙ",
   "ᶚ", "ᶛ", "ᶜ", "ᶝ", "ᶞ", "ᶟ", "ᶠ", "ᶡ", "ᶢ", "ᶣ", "ᶤ", "ᶥ", "ᶦ", "ᶧ", "ᶨ",
   "ᶩ", "ᶪ", "ᶫ", "ᶬ", "ᶭ", "ᶮ", "ᶯ", "ᶰ", "ᶱ", "ᶲ", "ᶳ", "ᶴ", "ᶵ", "ᶶ", "ᶷ",
   "ᶸ", "ᶹ", "ᶺ", "ᶻ", "ᶼ", "ᶽ", "ᶾ", "ᶿ", "Ẁ", "ẁ", "Ẃ", "ẃ", "Ẅ", "ẅ", "Ẇ",
   "ẇ", "Ẉ", "ẉ", "Ẋ", "ẋ", "Ẍ", "ẍ", "Ẏ", "ẏ", "Ẑ", "ẑ", "Ẓ", "ẓ", "Ẕ", "ẕ",
   "ẖ", "ẗ", "ẘ", "ẙ", "ẚ", "ẛ", "ẜ", "ẝ", "ẞ", "ẟ", "Ạ", "ạ", "Ả", "ả", "Ấ",
   "ấ", "Ầ", "ầ", "Ẩ", "ẩ", "Ẫ", "ẫ", "Ậ", "ậ", "Ắ", "ắ", "Ằ", "ằ", "Ẳ", "ẳ",
   "Ẵ", "ẵ", "Ặ", "ặ", "Ẹ", "ẹ", "Ẻ", "ẻ", "Ẽ", "ẽ", "Ế", "ế", "Ề", "ề", "Ể",
   "ể", "Ễ", "ễ", "Ệ", "ệ", "Ỉ", "ỉ", "Ị", "ị", "Ọ", "ọ", "Ỏ", "ỏ", "Ố", "ố",
   "Ồ", "ồ", "Ổ", "ổ", "Ỗ", "ỗ", "Ộ", "ộ", "Ớ", "ớ", "Ờ", "ờ", "Ở", "ở", "Ỡ",
   "ỡ", "Ợ", "ợ", "Ụ", "ụ", "Ủ", "ủ", "Ứ", "ứ", "Ừ", "ừ", "Ử", "ử", "Ữ", "ữ",
   "Ự", "ự", "Ỳ", "ỳ", "Ỵ", "ỵ", "Ỷ", "ỷ", "Ỹ", "ỹ", "Ỻ", "ỻ", "Ỽ", "ỽ", "Ỿ",
   "ỿ", "ᾀ", "ᾁ", "ᾂ", "ᾃ", "ᾄ", "ᾅ", "ᾆ", "ᾇ", "ᾈ", "ᾉ", "ᾊ", "ᾋ", "ᾌ", "ᾍ",
   "ᾎ", "ᾏ", "ᾐ", "ᾑ", "ᾒ", "ᾓ", "ᾔ", "ᾕ", "ᾖ", "ᾗ", "ᾘ", "ᾙ", "ᾚ", "ᾛ", "ᾜ",
   "ᾝ", "ᾞ", "ᾟ", "ᾠ", "ᾡ", "ᾢ", "ᾣ", "ᾤ", "ᾥ", "ᾦ", "ᾧ", "ᾨ", "ᾩ", "ᾪ", "ᾫ",
   "ᾬ", "ᾭ", "ᾮ", "ᾯ", "ᾰ", "ᾱ", "ᾲ", "ᾳ", "ᾴ", "ᾶ", "ᾷ", "Ᾰ", "Ᾱ", "Ὰ", "Ά",
   "ᾼ", "ι", "ῂ", "ῃ", "ῄ", "ῆ", "ῇ", "Ὲ", "Έ", "Ὴ", "Ή", "ῌ", "ῐ", "ῑ", "ῒ",
   "ΐ", "ῖ", "ῗ", "Ῐ", "Ῑ", "Ὶ", "Ί", "ῠ", "ῡ", "ῢ", "ΰ", "ῤ", "ῥ", "ῦ", "ῧ",
   "Ῠ", "Ῡ", "Ὺ", "Ύ", "Ῥ", "ῲ", "ῳ", "ῴ", "ῶ", "ῷ", "Ὸ", "Ό", "Ὼ", "Ώ", "ῼ",
   "ₐ", "ₑ", "ₒ", "ₓ", "ₔ", "ₕ", "ₖ", "ₗ", "ₘ", "ₙ", "ₚ", "ₛ", "ₜ", "Ↄ", "ↄ",
   "Ⓐ", "Ⓑ", "Ⓒ", "Ⓓ", "Ⓔ", "Ⓕ", "Ⓖ", "Ⓗ", "Ⓘ", "Ⓙ", "Ⓚ", "Ⓛ", "Ⓜ", "Ⓝ", "Ⓞ",
   "Ⓟ", "Ⓠ", "Ⓡ", "Ⓢ", "Ⓣ", "Ⓤ", "Ⓥ", "Ⓦ", "Ⓧ", "Ⓨ", "Ⓩ", "ⓐ", "ⓑ", "ⓒ", "ⓓ",
   "ⓔ", "ⓕ", "ⓖ", "ⓗ", "ⓘ", "ⓙ", "ⓚ", "ⓛ", "ⓜ", "ⓝ", "ⓞ", "ⓟ", "ⓠ", "ⓡ", "ⓢ",
   "ⓣ", "ⓤ", "ⓥ", "ⓦ", "ⓧ", "ⓨ", "ⓩ", "Ⲁ", "ⲁ", "Ⲃ", "ⲃ", "Ⲅ", "ⲅ", "Ⲇ", "ⲇ",
   "Ⲉ", "ⲉ", "Ⲋ", "ⲋ", "Ⲍ", "ⲍ", "Ⲏ", "ⲏ", "Ⲑ", "ⲑ", "Ⲓ", "ⲓ", "Ⲕ", "ⲕ", "Ⲗ",
   "ⲗ", "Ⲙ", "ⲙ", "Ⲛ", "ⲛ", "Ⲝ", "ⲝ", "Ⲟ", "ⲟ", "Ⲡ", "ⲡ", "Ⲣ", "ⲣ", "Ⲥ", "ⲥ",
   "Ⲧ", "ⲧ", "Ⲩ", "ⲩ", "Ⲫ", "ⲫ", "Ⲭ", "ⲭ", "Ⲯ", "ⲯ", "Ⲱ", "ⲱ", "Ⲳ", "ⲳ", "Ⲵ",
   "ⲵ", "Ⲷ", "ⲷ", "Ⲹ", "ⲹ", "Ⲻ", "ⲻ", "Ⲽ", "ⲽ", "Ⲿ", "ⲿ", "Ⳁ", "ⳁ", "Ⳃ", "ⳃ",
   "Ⳅ", "ⳅ", "Ⳇ", "ⳇ", "Ⳉ", "ⳉ", "Ⳋ", "ⳋ", "Ⳍ", "ⳍ", "Ⳏ", "ⳏ", "Ⳑ", "ⳑ", "Ⳓ",
   "ⳓ", "Ⳕ", "ⳕ", "Ⳗ", "ⳗ", "Ⳙ", "ⳙ", "Ⳛ", "ⳛ", "Ⳝ", "ⳝ", "Ⳟ", "ⳟ", "Ⳡ", "ⳡ",
   "Ⳣ", "ⳣ", "ⳤ", "Ⳬ", "ⳬ", "Ⳮ", "ⳮ", "Ⳳ", "ⳳ", "Ꚁ", "ꚁ", "Ꚃ", "ꚃ", "Ꚅ", "ꚅ",
   "Ꚇ", "ꚇ", "Ꚉ", "ꚉ", "Ꚋ", "ꚋ", "Ꚍ", "ꚍ", "Ꚏ", "ꚏ", "Ꚑ", "ꚑ", "Ꚓ", "ꚓ", "Ꚕ",
   "ꚕ", "Ꚗ", "ꚗ", "Ꚙ", "ꚙ", "Ꚛ", "ꚛ", "ꚜ", "ꚝ", "Ꞁ", "ꞁ", "Ꞃ", "ꞃ", "Ꞅ", "ꞅ",
   "Ꞇ", "ꞇ", "Ꞌ", "ꞌ", "Ɥ", "ꞎ", "Ꞑ", "ꞑ", "Ꞓ", "ꞓ", "ꞔ", "ꞕ", "Ꞗ", "ꞗ", "Ꞙ",
   "ꞙ", "Ꞛ", "ꞛ", "Ꞝ", "ꞝ", "Ꞟ", "ꞟ", "Ꞡ", "ꞡ", "Ꞣ", "ꞣ", "Ꞥ", "ꞥ", "Ꞧ", "ꞧ",
   "Ꞩ", "ꞩ", "Ɦ", "Ɜ", "Ɡ", "Ɬ", "Ɪ", "ꞯ", "Ʞ", "Ʇ", "Ʝ", "Ꭓ", "Ꞵ", "ꞵ", "Ꞷ",
   "ꞷ", "Ꞹ", "ꞹ", "Ꞻ", "ꞻ", "Ꞽ", "ꞽ", "Ꞿ", "ꞿ", "Ꟁ", "ꟁ", "Ꟃ", "ꟃ", "Ꞔ", "Ʂ",
   "Ᶎ", "Ꟈ", "ꟈ", "Ꟊ", "ꟊ", "Ɤ", "Ꟍ", "ꟍ", "꟎", "꟏", "Ꟑ", "ꟑ", "꟒", "ꟓ", "꟔",
   "ꟕ", "Ꟗ", "ꟗ", "Ꟙ", "ꟙ", "Ꟛ", "ꟛ", "Ƛ", "꟱", "ꟲ", "ꟳ", "ꟴ", "Ꟶ", "ꟶ", "ꟸ",
   "ꟹ", "ꟺ", "ꮀ", "ꮁ", "ꮂ", "ꮃ", "ꮄ", "ꮅ", "ꮆ", "ꮇ", "ꮈ", "ꮉ", "ꮊ", "ꮋ", "ꮌ",
   "ꮍ", "ꮎ", "ꮏ", "ꮐ", "ꮑ", "ꮒ", "ꮓ", "ꮔ", "ꮕ", "ꮖ", "ꮗ", "ꮘ", "ꮙ", "ꮚ", "ꮛ",
   "ꮜ", "ꮝ", "ꮞ", "ꮟ", "ꮠ", "ꮡ", "ꮢ", "ꮣ", "ꮤ", "ꮥ", "ꮦ", "ꮧ", "ꮨ", "ꮩ", "ꮪ",
   "ꮫ", "ꮬ", "ꮭ", "ꮮ", "ꮯ", "ꮰ", "ꮱ", "ꮲ", "ꮳ", "ꮴ", "ꮵ", "ꮶ", "ꮷ", "ꮸ", "ꮹ",
   "ꮺ", "ꮻ", "ꮼ", "ꮽ", "ꮾ", "ꮿ"}

CaseIgnorable ==
  {"'", ".", ":", "^", "¨", "­", "¯", "´", "·", "¸", "ʰ", "ʱ", "ʲ", "ʳ", "ʴ",
   "ʵ", "ʶ", "ʷ", "ʸ", "ʹ", "ʺ", "ʻ", "ʼ", "ʽ", "ʾ", "ʿ", "ˀ", "ˁ", "˂", "˃",
   "˄", "˅", "ˆ", "ˇ", "ˈ", "ˉ", "ˊ", "ˋ", "ˌ", "ˍ", "ˎ", "ˏ", "ː", "ˑ", "˒",
   "˓", "˔", "˕", "˖", "˗", "˘", "˙", "˚", "˛", "˜", "˝", "˞", "˟", "ˠ", "ˡ",
   "ˢ", "ˣ", "ˤ", "˥", "˦", "˧", "˨", "˩", "˪", "˫", "ˬ", "˭", "ˮ", "˯", "˰",
   "˱", "˲", "˳", "˴", "˵", "˶", "˷", "˸", "˹", "˺", "˻", "˼", "˽", "˾", "˿",
   "΄", "΅", "·", "҃", "҄", "҅", "҆", "҇", "҈", "҉", "֑", "֒", "֓", "֔", "֕",
   "֖", "֗", "֘", "֙", "֚", "֛", "֜", "֝", "֞", "֟", "֠", "֡", "֢", "֣", "֤",
   "֥", "֦", "֧", "֨", "֩", "֪", "֫", "֬", "֭", "֮", "֯", "ְ", "ֱ", "ֲ", "ֳ",
   "ִ", "ֵ", "ֶ", "ַ", "ָ", "ֹ", "ֺ", "ֻ", "ּ", "ֽ", "ֿ", "ׁ", "ׂ", "ׄ", "ׅ",
   "ׇ", "״", "ۖ", "ۗ", "ۘ", "ۙ", "ۚ", "ۛ", "ۜ", "۝", "۟", "۠", "ۡ", "ۢ", "ۣ",
   "ۤ", "ۥ", "ۦ", "ۧ", "ۨ", "۪", "۫", "۬", "ۭ", "ަ", "ާ", "ި", "ީ", "ު", "ޫ",
   "ެ", "ޭ", "ޮ", "ޯ", "ް", "߫", "߬", "߭", "߮", "߯", "߰", "߱", "߲", "߳", "ߴ",
   "ߵ", "ߺ", "߽", "࢈", "࢐", "࢑", "ࢗ", "࢘", "࢙", "࢚", "࢛", "࢜", "࢝", "࢞", "࢟",
   "ࣉ", "࣊", "࣋", "࣌", "࣍", "࣎", "࣏", "࣐", "࣑", "࣒", "࣓", "ࣔ", "ࣕ", "ࣖ", "ࣗ",
   "ࣘ", "ࣙ", "ࣚ", "ࣛ", "ࣜ", "ࣝ", "ࣞ", "ࣟ", "࣠", "࣡", "࣢", "ࣣ", "ࣤ", "ࣥ", "ࣦ",
   "ࣧ", "ࣨ", "ࣩ", "࣪", "࣫", "࣬", "࣭", "࣮", "࣯", "ࣰ", "ࣱ", "ࣲ", "ࣳ", "ࣴ", "ࣵ",
   "ࣶ", "ࣷ", "ࣸ", "ࣹ", "ࣺ", "ࣻ", "ࣼ", "ࣽ", "ࣾ", "ࣿ", "ঁ", "়", "ু", "ূ", "ৃ",
   "ৄ", "্", "ৢ", "ৣ", "৾", "ઁ", "ં", "઼", "ુ", "ૂ", "ૃ", "ૄ", "ૅ", "ે", "ૈ",
   "્", "ૢ", "ૣ", "ૺ", "ૻ", "ૼ", "૽", "૾", "૿", "ஂ", "ீ", "்", "ಁ", "಼", "ಿ",
   "ೆ", "ೌ", "್", "ೢ", "ೣ", "ඁ", "්", "ි", "ී", "ු", "ූ", "ັ", "ິ", "ີ", "ຶ",
   "ື", "ຸ", "ູ", "຺", "ົ", "ຼ", "ໆ", "່", "້", "໊", "໋", "໌", "ໍ", "໎", "ྀ",
   "ཱྀ", "ྂ", "ྃ", "྄", "྆", "྇", "ྍ", "ྎ", "ྏ", "ྐ", "ྑ", "ྒ", "ྒྷ", "ྔ", "ྕ",
   "ྖ", "ྗ", "ྙ", "ྚ", "ྛ", "ྜ", "ྜྷ", "ྞ", "ྟ", "ྠ", "ྡ", "ྡྷ", "ྣ", "ྤ", "ྥ",
   "ྦ", "ྦྷ", "ྨ", "ྩ", "ྪ", "ྫ", "ྫྷ", "ྭ", "ྮ", "ྯ", "ྰ", "ྱ", "ྲ", "ླ", "ྴ",
   "ྵ", "ྶ", "ྷ", "ྸ", "ྐྵ", "ྺ", "ྻ", "ྼ", "࿆", "ႂ", "ႅ", "ႆ", "ႍ", "ႝ", "ჼ",
   "឴", "឵", "ិ", "ី", "ឹ", "ឺ", "ុ", "ូ", "ួ", "ំ", "៉", "៊", "់", "៌", "៍",
   "៎", "៏", "័", "៑", "្", "៓", "ៗ", "៝", "ᢅ", "ᢆ", "ᢩ", "ᪧ", "᪰", "᪱", "᪲",
   "᪳", "᪴", "᪵", "᪶", "᪷", "᪸", "᪹", "᪺", "᪻", "᪼", "᪽", "᪾", "ᪿ", "ᫀ", "᫁",
   "᫂", "᫃", "᫄", "᫅", "᫆", "᫇", "᫈", "᫉", "᫊", "᫋", "ᫌ", "ᫍ", "ᫎ", "᫏", "᫐",
   "᫑", "᫒", "᫓", "᫔", "᫕", "᫖", "᫗", "᫘", "᫙", "᫚", "᫛", "᫜", "᫝", "᫠", "᫡",
   "᫢", "᫣", "᫤", "᫥", "᫦", "᫧", "᫨", "᫩", "᫪", "᫫", "ᮀ", "ᮁ", "ᮢ", "ᮣ", "ᮤ",
   "ᮥ", "ᮨ", "ᮩ", "᮫", "ᮬ", "ᮭ", "᯦", "ᯨ", "ᯩ", "ᯭ", "ᯯ", "ᯰ", "ᯱ", "᳐", "᳑",
   "᳒", "᳔", "᳕", "᳖", "᳗", "᳘", "᳙", "᳚", "᳛", "᳜", "᳝", "᳞", "᳟", "᳠", "᳢",
   "᳣", "᳤", "᳥", "᳦", "᳧", "᳨", "᳭", "᳴", "᳸", "᳹", "ᶛ", "ᶜ", "ᶝ", "ᶞ", "ᶟ",
   "ᶠ", "ᶡ", "ᶢ", "ᶣ", "ᶤ", "ᶥ", "ᶦ", "ᶧ", "ᶨ", "ᶩ", "ᶪ", "ᶫ", "ᶬ", "ᶭ", "ᶮ",
   "ᶯ", "ᶰ", "ᶱ", "ᶲ", "ᶳ", "ᶴ", "ᶵ", "ᶶ", "ᶷ", "ᶸ", "ᶹ", "ᶺ", "ᶻ", "ᶼ", "ᶽ",
   "ᶾ", "ᶿ", "᷀", "᷁", "᷂", "᷃", "᷄", "᷅", "᷆", "᷇", "᷈", "᷉", "᷊", "᷋", "᷌",
   "᷍", "᷎", "᷏", "᷐", "᷑", "᷒", "ᷓ", "ᷔ", "ᷕ", "ᷖ", "ᷗ", "ᷘ", "ᷙ", "ᷚ", "ᷛ",
   "ᷜ", "ᷝ", "ᷞ", "ᷟ", "ᷠ", "ᷡ", "ᷢ", "ᷣ", "ᷤ", "ᷥ", "ᷦ", "ᷧ", "ᷨ", "ᷩ", "ᷪ",
   "ᷫ", "ᷬ", "ᷭ", "ᷮ", "ᷯ", "ᷰ", "ᷱ", "ᷲ", "ᷳ", "ᷴ", "᷵", "᷶", "᷷", "᷸", "᷹",
   "᷺", "᷻", "᷼", "᷽", "᷾", "᷿", "᾽", "᾿", "῀", "῁", "῍", "῎", "῏", "῝", "῞",
   "῟", "῭", "΅", "`", "´", "῾", "ₐ", "ₑ", "ₒ", "ₓ", "ₔ", "ₕ", "ₖ", "ₗ", "ₘ",
   "ₙ", "ₚ", "ₛ", "ₜ", "⃐", "⃑", "⃒", "⃓", "⃔", "⃕", "⃖", "⃗", "⃘", "⃙", "⃚",
   "⃛", "⃜", "⃝", "⃞", "⃟", "⃠", "⃡", "⃢", "⃣", "⃤", "⃥", "⃦", "⃧", "⃨", "⃩",
   "⃪", "⃫", "⃬", "⃭", "⃮", "⃯", "⃰", "⳯", "⳰", "⳱", "ⷠ", "ⷡ", "ⷢ", "ⷣ", "ⷤ",
   "ⷥ", "ⷦ", "ⷧ", "ⷨ", "ⷩ", "ⷪ", "ⷫ", "ⷬ", "ⷭ", "ⷮ", "ⷯ", "ⷰ", "ⷱ", "ⷲ", "ⷳ",
   "ⷴ", "ⷵ", "ⷶ", "ⷷ", "ⷸ", "ⷹ", "ⷺ", "ⷻ", "ⷼ", "ⷽ", "ⷾ", "ⷿ", "゙", "゚", "゛",
   "゜", "ゝ", "ゞ", "ー", "ヽ", "ヾ", "ꓸ", "ꓹ", "ꓺ", "ꓻ", "ꓼ", "ꓽ", "ꚜ", "ꚝ", "ꚞ",
   "ꚟ", "꛰", "꛱", "ꞈ", "꞉", "꞊", "꟱", "ꟲ", "ꟳ", "ꟴ", "ꟸ", "ꟹ", "꣄", "ꣅ", "꣠",
   "꣡", "꣢", "꣣", "꣤", "꣥", "꣦", "꣧", "꣨", "꣩", "꣪", "꣫", "꣬", "꣭", "꣮", "꣯",
   "꣰", "꣱", "ꣿ", "ꦀ", "ꦁ", "ꦂ", "꦳", "ꦶ", "ꦷ", "ꦸ", "ꦹ", "ꦼ", "ꦽ", "ꧏ", "ꧥ",
   "ꧦ", "ꪰ", "ꪲ", "ꪳ", "ꪴ", "ꪷ", "ꪸ", "ꪾ", "꪿", "꫁", "ꫝ", "ꫬ", "ꫭ", "ꫳ", "ꫴ",
   "꫶", "ꯥ", "ꯨ", "꯭", "﮲", "﮳", "﮴", "﮵", "﮶", "﮷", "﮸", "﮹", "﮺", "﮻", "﮼",
   "﮽", "﮾", "﮿", "﯀", "﯁", "﯂", "﻿", "ﾞ", "ﾟ", "￣", "￹", "￺", "￻"}

\* The Final_Sigma condition of toLowerCase for the capital sigma at s[i]:
\* going back over case-ignorable characters there is a cased letter, and
\* going forward over case-ignorable characters there is none.  A character
\* that is both cased and case-ignorable is passed over.
FinalSigma(s, i) ==
  /\ \E j \in 1..(i - 1) :
       /\ s[j] \in Cased /\ s[j] \notin CaseIgnorable
       /\ \A k \in (j + 1)..(i - 1) : s[k] \in CaseIgnorable
  /\ ~\E j \in (i + 1)..Len(s) :
        /\ s[j] \in Cased /\ s[j] \notin CaseIgnorable
        /\ \A k \in (i + 1)..(j - 1) : s[k] \in CaseIgnorable

\* String.prototype.toLowerCase: every character by itself, but for the
\* capital sigma, which at the end of a word becomes the final sigma.
toLowerCase(s) ==
  [i \in 1..Len(s) |->
     IF s[i] = "Σ" /\ FinalSigma(s, i) THEN "ς" ELSE LowerChar(s[i])]

\* String.prototype.trim.
trim(s) ==
  LET keep == {i \in 1..Len(s) : ~IsSpace(s[i])}
  IN IF keep = {} THEN <<>>
     ELSE LET lo == CHOOSE i \in keep : \A j \in keep : i <= j
              hi == CHOOSE i \in keep : \A j \in keep : j <= i
          IN SubSeq(s, lo, hi)

\* String.prototype.startsWith.
startsWith(s, p) == Len(s) >= Len(p) /\ SubSeq(s, 1, Len(p)) = p

\* String.prototype.includes.
includes(s, q) ==
  \E i \in 1..(Len(s) - Len(q) + 1) : SubSeq(s, i, i + Len(q) - 1) = q
\* (for q = <<>> and s = <<>> the range 1..1 gives SubSeq(s,1,0) = <<>>.)

\* content.split("\n")
RECURSIVE split(_)
split(s) ==
  LET nls == {i \in 1..Len(s) : s[i] = NL}
  IN IF nls = {} THEN <<s>>
     ELSE LET i == CHOOSE k \in nls : \A j \in nls : k <= j
          IN <<SubSeq(s, 1, i - 1)>> \o split(SubSeq(s, i + 1, Len(s)))

\* lines.join("\n")
RECURSIVE join(_)
join(lines) ==
  IF Len(lines) = 0 THEN <<>>
  ELSE IF Len(lines) = 1 THEN lines[1]
  ELSE lines[1] \o <<NL>> \o join(Tail(lines))

\* First position >= i of s that holds no white space (Len(s)+1 if none):
\* where a greedy \s* starting at i stops.
RECURSIVE SkipSpace(_, _)
SkipSpace(s, i) ==
  IF i <= Len(s) /\ IsSpace(s[i]) THEN SkipSpace(s, i + 1) ELSE i

\* The sub-pattern  \s*-\s*\[m\]  tried at position p of s: the position of
\* the last character it matches, or 0 when it does not match there.  The
\* character after each \s* is no white space, so greedy matching never
\* backtracks.
MarkerEnd(s, p, m) ==
  LET d == SkipSpace(s, p)
  IN IF ~(d <= Len(s) /\ s[d] = "-") THEN 0
     ELSE LET b == SkipSpace(s, d + 1)
          IN IF b + 2 <= Len(s) /\ s[b] = "[" /\ s[b + 1] = m /\ s[b + 2] = "]"
             THEN b + 2 ELSE 0

\* line.replace(/^\s*-\s*\[m\]/, repl)
ReplaceMarker(line, m, repl) ==
  LET e == MarkerEnd(line, 1, m)
  IN IF e = 0 THEN line ELSE repl \o SubSeq(line, e + 1, Len(line))

\* line.replace(/^\s*-\s*\[x\]|\s*-\s*\[ \]/, ""): the first alternative is
\* anchored at the start, the second matches anywhere; the leftmost match
\* is the one removed, the first alternative preferred at position 1.
StripMarker(line) ==
  LET e1 == MarkerEnd(line, 1, "x")
      hits == {p \in 1..Len(line) : MarkerEnd(line, p, " ") > 0}
  IN IF e1 > 0 THEN SubSeq(line, e1 + 1, Len(line))
     ELSE IF hits = {} THEN line
     ELSE LET p == CHOOSE k \in hits : \A j \in hits : k <= j
          IN SubSeq(line, 1, p - 1)
             \o SubSeq(line, MarkerEnd(line, p, " ") + 1, Len(line))

\* The literals "- [ ]" and "- [x]".
OpenMarker == <<"-", " ", "[", " ", "]">>
DoneMarker == <<"-", " ", "[", "x", "]">>

\* ------------------------------------------------- the pure functions

\* getTasksFromFile, after its read: the Task records of one document.
getTasksFromFile(content, path) ==
  LET lines == split(content)
      isCompleted(i) == startsWith(lines[i], DoneMarker)
      isTask(i) == startsWith(lines[i], OpenMarker) \/ isCompleted(i)
      rec(i) == [text       |-> trim(StripMarker(lines[i])),
                 completed  |-> isCompleted(i),
                 filePath   |-> path,
                 lineNumber |-> i]
      F[i \in 0..Len(lines)] ==
        IF i = 0 THEN <<>>
        ELSE IF isTask(i) THEN Append(F[i - 1], rec(i)) ELSE F[i - 1]
  IN F[Len(lines)]

\* updateTaskInContent reads lines[task.lineNumber - 1]; past the end of
\* the array that is undefined and .replace on it throws a TypeError.
updateThrows(content, task) == task.lineNumber > Len(split(content))

\* An updateTaskInContent that flips whichever marker the line carries,
\* without looking at the target state.
updateTaskInContentFlips(content, task) ==
  LET lines == split(content)
      n == task.lineNumber
      new == IF MarkerEnd(lines[n], 1, " ") > 0
             THEN ReplaceMarker(lines[n], " ", DoneMarker)
             ELSE ReplaceMarker(lines[n], "x", OpenMarker)
  IN join([lines EXCEPT ![n] = new])

\* updateTaskInContent, when it does not throw.
updateTaskInContent(content, task) ==
  LET lines == split(content)
      n == task.lineNumber
      new == IF task.completed
             THEN ReplaceMarker(lines[n], " ", DoneMarker)
             ELSE ReplaceMarker(lines[n], "x", OpenMarker)
  IN join([lines EXCEPT ![n] = new])

\* The predicate of this.tasks.filter(...) in searchTasks; query is already
\* lower-cased.
Matches(task, query, showCompleted) ==
  /\ includes(toLowerCase(task.text), query)
  /\ IF showCompleted THEN task.completed ELSE ~task.completed

\* The positions of ts that pass the filter, in order: the filtered array
\* holds the same Task objects, referred to here by position.
FilterRefs(ts, query, showCompleted) ==
  LET F[i \in 0..Len(ts)] ==
        IF i = 0 THEN <<>>
        ELSE IF Matches(ts[i], query, showCompleted)
             THEN Append(F[i - 1], i) ELSE F[i - 1]
  IN F[Len(ts)]

\* ------------------------------------------------------ the vault

\* The paths a vault may hold, in the order the vault lists them.
Paths == <<"f1", "f2">>

\* "- [ ] a\n- [ ] ab\n"
TextTwoOpen ==
  <<"-", " ", "[", " ", "]", " ", "a", NL,
    "-", " ", "[", " ", "]", " ", "a", "b", NL>>

\* "- [x] b\np"
TextOneDone == <<"-", " ", "[", "x", "]", " ", "b", NL, "p">>

\* "  - [ ] a\n-  [ ] ab": the two tasks, the first indented, the second
\* with two spaces inside its marker.
TextIndented ==
  <<" ", " ", "-", " ", "[", " ", "]", " ", "a", NL,
    "-", " ", " ", "[", " ", "]", " ", "a", "b">>

\* "p\n- [ ] a\n- [ ] ab\n": a line inserted above the tasks.
TextShifted ==
  <<"p", NL,
    "-", " ", "[", " ", "]", " ", "a", NL,
    "-", " ", "[", " ", "]", " ", "a", "b", NL>>

\* "- [ ] a": the second task line removed.
TextShort == <<"-", " ", "[", " ", "]", " ", "a">>

\* What another writer may turn a document into.
EditTexts == {TextIndented, TextShifted, TextShort}

\* "- [ ] a\n- [x] Ab\np"
TextUI ==
  <<"-", " ", "[", " ", "]", " ", "a", NL,
    "-", " ", "[", "x", "]", " ", "A", "b", NL, "p">>

\* "- [ ] a\n- [x] Ab\n- [ ] B a\n- [x] a\n- [ ] ΑΣ": the last record is
\* of the Greek capitals alpha and sigma.
TextFilter ==
  <<"-", " ", "[", " ", "]", " ", "a", NL,
    "-", " ", "[", "x", "]", " ", "A", "b", NL,
    "-", " ", "[", " ", "]", " ", "B", " ", "a", NL,
    "-", " ", "[", "x", "]", " ", "a", NL,
    "-", " ", "[", " ", "]", " ", "Α", "Σ">>

FilterDocument == "f1" :> TextFilter

\* Queries for the filter: empty, blank (of spaces, and of a form feed and
\* a no-break space), upper case, with a leading space, and the Greek
\* capital sigma and final sigma.
FilterInputs ==
  {<<>>, <<" ">>, <<" ", " ">>, <<"\f", NBSP>>, <<"A">>, <<"B">>, <<" ", "a">>,
   <<"Σ">>, <<"ς">>}

\* "- [ ] a\n- [ ] ab\n- [ ] abx": three open tasks; the queries a, b and x
\* show three, two and one of them.
TextThree ==
  <<"-", " ", "[", " ", "]", " ", "a", NL,
    "-", " ", "[", " ", "]", " ", "a", "b", NL,
    "-", " ", "[", " ", "]", " ", "a", "b", "x">>

CursorDocument == "f1" :> TextThree

CursorInputs == {<<"a">>, <<"b">>, <<"x">>}

\* A vault of one document, and one of two.
OneDocument == "f1" :> TextUI

TwoDocuments == ("f1" :> TextTwoOpen) @@ ("f2" :> TextOneDone)

\* What the user types into the search input.
InputValues == {<<>>, <<"a">>, <<"B">>}

\* The debounce delay in clock ticks.
Quiet == (DebounceMs + TickMs - 1) \div TickMs

TimerIds == 1..MaxTimers

\* ------------------------------------------------------------- state

VARIABLES
  vault,              \* the text of each document in the store
  exists,             \* whether getAbstractFileByPath(path) gives a TFile
  modal,              \* "new" (constructed), "open", "closed"
  tasks,              \* this.tasks
  filteredTasks,      \* this.filteredTasks, as positions in tasks
  rows,               \* the rendered .task-item rows: task and checkbox state
  selectedTaskIndex,  \* this.selectedTaskIndex (0-based, -1 for none)
  inputValue,         \* this.input.value
  completedChecked,   \* this.completedTasksCheckbox.checked
  debounceTimer,      \* this.debounceTimer (0 for null)
  timers,             \* the host's timers: ticks left, -1 when not pending
  rebuild,            \* getTasks: where it is suspended
  ops,                \* handleTaskCompletion calls suspended at an await
  opening,            \* openSelectedTask calls: suspended at openLinkText
                      \* ("link") or waiting for focusOnTask's timer ("focus")
  editor,             \* the host's active editor: document, cursor, focus
  commit,             \* history: the record of the latest task-open commit
                      \* (0: none yet)
  sinceEvent,         \* history: ticks since the last debouncedSearch call
  passes,             \* history: searchTasks runs since that call
  burst,              \* history: debouncedSearch calls less than Quiet apart
  cursorBefore,       \* history: the cursor as the latest searchTasks run
                      \* since that call found it (-2: no run yet)
  streak              \* history: the moves in one direction since the
                      \* cursor was last set otherwise: where they began
                      \* and how many there were, up to one full round

vars == <<vault, exists, modal, tasks, filteredTasks, rows, selectedTaskIndex,
          inputValue, completedChecked, debounceTimer, timers, rebuild, ops,
          opening, editor, commit, sinceEvent, passes, burst, cursorBefore,
          streak>>

store == <<vault, exists>>
view == <<filteredTasks, rows, selectedTaskIndex>>
form == <<inputValue, completedChecked>>
clock == <<debounceTimer, timers>>
nav == <<opening, editor, commit>>
hist == <<sinceEvent, passes, burst, cursorBefore, streak>>
timing == <<sinceEvent, passes, burst, cursorBefore>>

NoStreak == [dir |-> "none", from |-> -1, n |-> 0]

\* app.vault.getMarkdownFiles(): the documents the store holds now, in the
\* store's order.
Files == SelectSeq(Paths, LAMBDA f : f \in DOMAIN vault /\ exists[f])

Pending == {id \in TimerIds : timers[id] >= 0}

Remove(s, k) == SubSeq(s, 1, k - 1) \o SubSeq(s, k + 1, Len(s))

\* The state after construction, with the documents v in the store.
InitWith(v) ==
  /\ vault = v
  /\ exists = [f \in DOMAIN v |-> TRUE]
  /\ modal = "new"
  /\ tasks = <<>>
  /\ filteredTasks = <<>>
  /\ rows = <<>>
  /\ selectedTaskIndex = -1
  /\ inputValue = <<>>
  /\ completedChecked = FALSE
  /\ debounceTimer = 0
  /\ timers = [id \in TimerIds |-> -1]
  /\ rebuild = [pc |-> "idle", i |-> 0, files |-> <<>>]
  /\ ops = <<>>
  /\ opening = <<>>
  /\ editor = [file |-> "", line |-> 0, ch |-> 0, focused |-> FALSE]
  /\ commit = 0
  /\ sinceEvent = Quiet
  /\ passes = 0
  /\ burst = 0
  /\ cursorBefore = -2
  /\ streak = NoStreak

Init == InitWith(OneDocument)

\* ---------------------------------------------------- corpus rebuild

\* The start of getTasks: this.tasks is emptied and the listing of the
\* store is taken once, as `files`; the loop over it suspends at the read
\* of its first document, or is over at once when the listing is empty.
getTasksStart ==
  /\ tasks' = <<>>
  /\ rebuild' = IF Len(Files) = 0
                THEN [pc |-> "done", i |-> 0, files |-> Files]
                ELSE [pc |-> "reading", i |-> 1, files |-> Files]

\* onOpen: builds the form and calls getTasks.
onOpen ==
  /\ modal = "new"
  /\ modal' = "open"
  /\ getTasksStart
  /\ UNCHANGED <<store, view, form, clock, ops, nav, hist>>

\* getTasks resumes: the awaited cachedRead gave the document's text; its
\* records are pushed and the loop suspends at the next document of the
\* listing it took at its start.
getTasksStep ==
  /\ rebuild.pc = "reading"
  /\ LET f == rebuild.files[rebuild.i]
     IN /\ exists[f]
        /\ tasks' = tasks \o getTasksFromFile(vault[f], f)
        /\ rebuild' = IF rebuild.i = Len(rebuild.files)
                      THEN [rebuild EXCEPT !.pc = "done"]
                      ELSE [rebuild EXCEPT !.i = rebuild.i + 1]
  /\ UNCHANGED <<store, modal, view, form, clock, ops, nav, hist>>

\* The awaited cachedRead rejects: nothing catches it, so getTasksFromFile
\* and getTasks reject and the loop is abandoned.
getTasksReadFails ==
  /\ rebuild.pc = "reading"
  /\ rebuild' = [rebuild EXCEPT !.pc = "failed"]
  /\ UNCHANGED <<store, modal, tasks, view, form, clock, ops, nav, hist>>

\* ------------------------------------------------- debounce and filter

\* A debouncedSearch that forgets to cancel the pending timer.
clearTimeoutSkipped(tm, h) == tm

\* clearTimeout(handle) on the timer table; null (0) and a handle that has
\* already fired are no-ops.
clearTimeout(tm, h) == IF h \in TimerIds THEN [tm EXCEPT ![h] = -1] ELSE tm

\* The handle setTimeout returns: one that is not pending.  The code keeps
\* a handle only in this.debounceTimer, which it overwrites with the new
\* handle at once, so handing out a handle that has fired is not seen.
FreeIds(tm) == {id \in TimerIds : tm[id] < 0}

NewId(tm) == CHOOSE id \in FreeIds(tm) : \A j \in FreeIds(tm) : id <= j

\* debouncedSearch.
debouncedSearch ==
  LET cleared == clearTimeout(timers, debounceTimer)
  IN /\ FreeIds(cleared) # {}
     /\ timers' = [cleared EXCEPT ![NewId(cleared)] = Quiet]
     /\ debounceTimer' = NewId(cleared)
     /\ burst' = IF burst > 0 /\ sinceEvent < Quiet
                 THEN (IF burst < 2 THEN burst + 1 ELSE burst)
                 ELSE 1
     /\ sinceEvent' = 0
     /\ passes' = 0
     /\ cursorBefore' = -2
     /\ streak' = streak

\* renderResults: one row per entry of the filtered array, its checkbox
\* showing the task's completed flag.
renderResults(ft, ts) ==
  [i \in 1..Len(ft) |-> [task |-> ft[i], checked |-> ts[ft[i]].completed]]

\* A resetSearch that lists every task instead of none.
resetSearchListsAll ==
  /\ rows' = renderResults([i \in 1..Len(tasks) |-> i], tasks)
  /\ selectedTaskIndex' = -1
  /\ filteredTasks' = [i \in 1..Len(tasks) |-> i]

resetSearch ==
  /\ rows' = <<>>
  /\ selectedTaskIndex' = -1
  /\ filteredTasks' = <<>>

\* A searchTasks that replaces the view and leaves the cursor where it was.
searchTasksKeepsCursor ==
  LET query == toLowerCase(inputValue)
      showCompleted == completedChecked
  IN IF trim(query) = <<>> THEN resetSearch
     ELSE LET ft == FilterRefs(tasks, query, showCompleted)
          IN /\ filteredTasks' = ft
             /\ rows' = renderResults(ft, tasks)
             /\ selectedTaskIndex' = selectedTaskIndex

\* searchTasks: it has no await, so it runs as one step.
searchTasks ==
  LET query == toLowerCase(inputValue)
      showCompleted == completedChecked
  IN IF trim(query) = <<>> THEN resetSearch
     ELSE LET ft == FilterRefs(tasks, query, showCompleted)
          IN /\ filteredTasks' = ft
             /\ rows' = renderResults(ft, tasks)
             /\ selectedTaskIndex' = IF Len(ft) > 0 THEN 0 ELSE -1

\* The "input" listener of the search box: it runs at every input event,
\* whether or not the event leaves the box with another value.
onInput(v) ==
  /\ modal = "open"
  /\ inputValue' = v
  /\ debouncedSearch
  /\ UNCHANGED <<store, modal, tasks, view, completedChecked, rebuild, ops,
                 nav>>

\* The "change" listener of the completed-tasks checkbox (a mouse click
\* on it flips its checked state first).
onCompletedChange ==
  /\ modal = "open"
  /\ completedChecked' = ~completedChecked
  /\ debouncedSearch
  /\ UNCHANGED <<store, modal, tasks, view, inputValue, rebuild, ops, nav>>

\* What a re-filter pass puts into this.filteredTasks for these inputs.
ViewFor(ts, input, flag) ==
  IF trim(toLowerCase(input)) = <<>> THEN <<>>
  ELSE FilterRefs(ts, toLowerCase(input), flag)

\* Ctrl+L: handleKeyDown calls toggleCompletedTasks.
toggleCompletedTasks ==
  /\ modal = "open"
  /\ completedChecked' = ~completedChecked
  /\ debouncedSearch
  /\ UNCHANGED <<store, modal, tasks, view, inputValue, rebuild, ops, nav>>

\* Time passes by one tick.
Tick ==
  /\ (\E id \in TimerIds : timers[id] > 0) \/ sinceEvent < Quiet
  /\ timers' = [id \in TimerIds |-> IF timers[id] > 0 THEN timers[id] - 1
                                    ELSE timers[id]]
  /\ sinceEvent' = IF sinceEvent < Quiet THEN sinceEvent + 1 ELSE sinceEvent
  /\ UNCHANGED <<store, modal, tasks, view, form, debounceTimer, rebuild, ops,
                 nav, passes, burst, cursorBefore, streak>>

\* A callback whose searchTasks awaits a rebuild of the corpus before it
\* filters, as the earlier variant of the overlay did: at the expiry it
\* only starts the rebuild and suspends, the view is left for a later step.
timerFiresAwaiting(id) ==
  /\ timers[id] = 0
  /\ timers' = [timers EXCEPT ![id] = -1]
  /\ getTasksStart
  /\ passes' = IF passes < 2 THEN passes + 1 ELSE passes
  /\ cursorBefore' = selectedTaskIndex
  /\ streak' = NoStreak
  /\ UNCHANGED <<store, modal, view, form, debounceTimer, ops, nav,
                 sinceEvent, burst>>

\* A timer set by debouncedSearch expires and its callback runs searchTasks.
timerFires(id) ==
  /\ timers[id] = 0
  /\ timers' = [timers EXCEPT ![id] = -1]
  /\ searchTasks
  /\ passes' = IF passes < 2 THEN passes + 1 ELSE passes
  /\ cursorBefore' = selectedTaskIndex
  /\ streak' = NoStreak
  /\ UNCHANGED <<store, modal, tasks, form, debounceTimer, rebuild, ops,
                 nav, sinceEvent, burst>>

\* --------------------------------------------------- selection cursor

\* A move down that does not wrap.
NextIndexNoWrap(i, len) == i + 1

NextIndex(i, len) == (i + 1) % len

\* A move up without the "+ length": JavaScript's % keeps the sign, so
\* the move up from 0 gives -1.
PreviousIndexNoLength(i, len) == IF i - 1 < 0 THEN -1 ELSE (i - 1) % len

PreviousIndex(i, len) == (i - 1 + len) % len

\* The streak after one more move in direction dir from cursor i in a view
\* of len rows: it goes on while it is in the same direction and short of
\* a full round, and begins anew otherwise.
Moved(dir, i, len) ==
  IF streak.dir = dir /\ streak.n < len
  THEN [streak EXCEPT !.n = @ + 1]
  ELSE [dir |-> dir, from |-> i, n |-> 1]

\* ArrowDown or Ctrl+J.
selectNextTask ==
  /\ modal = "open"
  /\ IF Len(filteredTasks) = 0
     THEN UNCHANGED <<selectedTaskIndex, streak>>
     ELSE /\ selectedTaskIndex' = NextIndex(selectedTaskIndex,
                                            Len(filteredTasks))
          /\ streak' = Moved("down", selectedTaskIndex, Len(filteredTasks))
  /\ UNCHANGED <<store, modal, tasks, filteredTasks, rows, form, clock,
                 rebuild, ops, nav, timing>>

\* ArrowUp or Ctrl+K.
selectPreviousTask ==
  /\ modal = "open"
  /\ IF Len(filteredTasks) = 0
     THEN UNCHANGED <<selectedTaskIndex, streak>>
     ELSE /\ selectedTaskIndex' = PreviousIndex(selectedTaskIndex,
                                                Len(filteredTasks))
          /\ streak' = Moved("up", selectedTaskIndex, Len(filteredTasks))
  /\ UNCHANGED <<store, modal, tasks, filteredTasks, rows, form, clock,
                 rebuild, ops, nav, timing>>

\* openSelectedTask with the cursor at idx, up to its await of
\* openLinkText; outside the view it returns at once, and with a path that
\* is no file it logs "File not found" and returns.  `commit` notes the
\* record the commit is for.
openSelectedTask(idx) ==
  IF idx >= 0 /\ idx < Len(filteredTasks)
  THEN /\ commit' = filteredTasks[idx + 1]
       /\ IF exists[tasks[filteredTasks[idx + 1]].filePath]
          THEN opening' = Append(opening, [task |-> filteredTasks[idx + 1],
                                           pc   |-> "link"])
          ELSE opening' = opening
  ELSE UNCHANGED <<opening, commit>>

\* Enter.
onEnter ==
  /\ modal = "open"
  /\ openSelectedTask(selectedTaskIndex)
  /\ UNCHANGED <<store, modal, tasks, view, form, clock, rebuild, ops, editor,
                 hist>>

\* A click on row r (1-based here) outside its checkbox.
onRowClick(r) ==
  /\ modal = "open"
  /\ r \in 1..Len(rows)
  /\ selectedTaskIndex' = r - 1
  /\ streak' = NoStreak
  /\ openSelectedTask(r - 1)
  /\ UNCHANGED <<store, modal, tasks, filteredTasks, rows, form, clock,
                 rebuild, ops, editor, timing>>

\* openLinkText resolves: the host shows the document in the active
\* editor; the overlay closes and focusOnTask sets its 100 ms timer.
openLinkDone(k) ==
  /\ k \in 1..Len(opening)
  /\ opening[k].pc = "link"
  /\ opening' = [opening EXCEPT ![k].pc = "focus"]
  /\ modal' = "closed"
  /\ editor' = [file    |-> tasks[opening[k].task].filePath,
                line    |-> 0,
                ch      |-> 0,
                focused |-> FALSE]
  /\ UNCHANGED <<store, tasks, view, form, clock, rebuild, ops, commit, hist>>

\* openLinkText rejects: openSelectedTask rejects with it, so the overlay is
\* not closed by this commit and focusOnTask is not called.
openLinkFails(k) ==
  /\ k \in 1..Len(opening)
  /\ opening[k].pc = "link"
  /\ opening' = Remove(opening, k)
  /\ UNCHANGED <<store, modal, tasks, view, form, clock, rebuild, ops, editor,
                 commit, hist>>

\* The user dismisses the overlay (Escape, or a click outside it): the host
\* closes it and calls onClose, which empties the content element.  The
\* controller's fields stay as they are, and so do a pending timer and the
\* handlers suspended at an await.
onClose ==
  /\ modal = "open"
  /\ modal' = "closed"
  /\ UNCHANGED <<store, tasks, view, form, clock, rebuild, ops, nav, hist>>

\* focusOnTask's timer fires.  When the host has an active Markdown view,
\* the cursor of its editor goes to the record's line (0-based), at the
\* column of the length of its text, and the editor takes the focus; when
\* getActiveViewOfType gives none, the callback does nothing.  Which of the
\* two the host answers is not the overlay's to decide.
focusOnTask(k) ==
  /\ k \in 1..Len(opening)
  /\ opening[k].pc = "focus"
  /\ opening' = Remove(opening, k)
  /\ \/ editor' = [file    |-> editor.file,
                   line    |-> tasks[opening[k].task].lineNumber - 1,
                   ch      |-> Len(tasks[opening[k].task].text),
                   focused |-> TRUE]
     \/ editor' = editor
  /\ UNCHANGED <<store, modal, tasks, view, form, clock, rebuild, ops, commit,
                 hist>>

\* -------------------------------------------------- completion toggle

PathOf(op) == tasks[op.task].filePath

\* handleTaskCompletion up to its first await: the "change" listener of the
\* checkbox of row r (the click has flipped the checkbox already).  The
\* record is updated first; then, if the path resolves to a file, the
\* handler suspends at vault.read; otherwise it goes straight on to
\* renderResults.  `prior` is history: the flag's value before the click.
handleTaskCompletion(r) ==
  /\ modal = "open"
  /\ r \in 1..Len(rows)
  /\ LET t == rows[r].task
         checked == ~rows[r].checked
     IN /\ tasks' = [tasks EXCEPT ![t].completed = checked]
        /\ IF exists[tasks[t].filePath]
           THEN /\ rows' = [rows EXCEPT ![r].checked = checked]
                /\ ops' = Append(ops, [task    |-> t,
                                       pc      |-> "read",
                                       content |-> <<>>,
                                       prior   |-> tasks[t].completed])
           ELSE /\ rows' = renderResults(filteredTasks, tasks')
                /\ ops' = ops
  /\ UNCHANGED <<store, modal, filteredTasks, selectedTaskIndex, form, clock,
                 rebuild, nav, hist>>

\* vault.read resolves: updateTaskInContent runs on what was read, with the
\* record as it is now, and the handler suspends at vault.modify.  If
\* updateTaskInContent throws, the handler ends there.
readDone(k) ==
  /\ k \in 1..Len(ops)
  /\ ops[k].pc = "read"
  /\ exists[PathOf(ops[k])]
  /\ LET content == vault[PathOf(ops[k])]
         task == tasks[ops[k].task]
     IN ops' = IF updateThrows(content, task) THEN Remove(ops, k)
               ELSE [ops EXCEPT ![k] =
                       [@ EXCEPT !.pc = "write",
                                 !.content = updateTaskInContent(content, task)]]
  /\ UNCHANGED <<store, modal, tasks, view, form, clock, rebuild, nav,
                 hist>>

\* vault.read rejects: the handler ends with the rejection.
readFails(k) ==
  /\ k \in 1..Len(ops)
  /\ ops[k].pc = "read"
  /\ ops' = Remove(ops, k)
  /\ UNCHANGED <<store, modal, tasks, view, form, clock, rebuild, nav,
                 hist>>

\* A handler that finishes with a re-filter pass instead of renderResults.
writeDoneRefilters(k) ==
  /\ k \in 1..Len(ops)
  /\ ops[k].pc = "write"
  /\ exists[PathOf(ops[k])]
  /\ vault' = [vault EXCEPT ![PathOf(ops[k])] = ops[k].content]
  /\ ops' = Remove(ops, k)
  /\ searchTasks
  /\ UNCHANGED <<exists, modal, tasks, form, clock, rebuild, nav, hist>>

\* vault.modify resolves: the document holds the updated text, and the
\* handler finishes with renderResults.
writeDone(k) ==
  /\ k \in 1..Len(ops)
  /\ ops[k].pc = "write"
  /\ exists[PathOf(ops[k])]
  /\ vault' = [vault EXCEPT ![PathOf(ops[k])] = ops[k].content]
  /\ ops' = Remove(ops, k)
  /\ rows' = renderResults(filteredTasks, tasks)
  /\ UNCHANGED <<exists, modal, tasks, filteredTasks, selectedTaskIndex, form,
                 clock, rebuild, nav, hist>>

\* vault.modify rejects: the handler ends with the rejection.
writeFails(k) ==
  /\ k \in 1..Len(ops)
  /\ ops[k].pc = "write"
  /\ ops' = Remove(ops, k)
  /\ UNCHANGED <<store, modal, tasks, view, form, clock, rebuild, nav,
                 hist>>

\* Another writer (the editor, a sync client) replaces a document's text.
externalEdit(f, c) ==
  /\ f \in DOMAIN vault
  /\ exists[f]
  /\ vault[f] # c
  /\ vault' = [vault EXCEPT ![f] = c]
  /\ UNCHANGED <<exists, modal, tasks, view, form, clock, rebuild, ops,
                 nav, hist>>

\* Another writer deletes or renames a document: its path no longer
\* resolves to a file.
externalDelete(f) ==
  /\ f \in DOMAIN vault
  /\ exists[f]
  /\ exists' = [exists EXCEPT ![f] = FALSE]
  /\ UNCHANGED <<vault, modal, tasks, view, form, clock, rebuild, ops,
                 nav, hist>>

\* ------------------------------------------------------ specifications

\* The session with a store that always answers and that nothing else
\* writes to.
Next ==
  \/ onOpen
  \/ getTasksStep
  \/ \E v \in InputValues : onInput(v)
  \/ onCompletedChange
  \/ toggleCompletedTasks
  \/ Tick
  \/ \E id \in TimerIds : timerFires(id)
  \/ selectNextTask
  \/ selectPreviousTask
  \/ Len(opening) < MaxOpening /\ onEnter
  \/ \E r \in 1..Len(rows) : Len(opening) < MaxOpening /\ onRowClick(r)
  \/ \E k \in 1..Len(opening) : openLinkDone(k)
  \/ \E k \in 1..Len(opening) : openLinkFails(k)
  \/ \E k \in 1..Len(opening) : focusOnTask(k)
  \/ onClose
  \/ \E r \in 1..Len(rows) : Len(ops) < MaxOps /\ handleTaskCompletion(r)
  \/ \E k \in 1..Len(ops) : readDone(k)
  \/ \E k \in 1..Len(ops) : writeDone(k)

Spec == Init /\ [][Next]_vars

\* A user who types one query and clicks result checkboxes, up to
\* MaxRacing of them before the first has finished, over two documents.
RaceInputs == {<<"a">>}

NextRace ==
  \/ onOpen
  \/ getTasksStep
  \/ \E v \in RaceInputs : onInput(v)
  \/ Tick
  \/ \E id \in TimerIds : timerFires(id)
  \/ \E r \in 1..Len(rows) : Len(ops) < MaxRacing /\ handleTaskCompletion(r)
  \/ \E k \in 1..Len(ops) : readDone(k)
  \/ \E k \in 1..Len(ops) : writeDone(k)

SpecRace == InitWith(TwoDocuments) /\ [][NextRace]_vars

\* The same with a store whose reads and writes may fail.
NextFail ==
  \/ NextRace
  \/ getTasksReadFails
  \/ \E k \in 1..Len(ops) : readFails(k)
  \/ \E k \in 1..Len(ops) : writeFails(k)

SpecFail == InitWith(TwoDocuments) /\ [][NextFail]_vars

\* One completion handler at a time over the two documents, with another
\* writer editing them.
NextEdit ==
  \/ onOpen
  \/ getTasksStep
  \/ \E v \in RaceInputs : onInput(v)
  \/ Tick
  \/ \E id \in TimerIds : timerFires(id)
  \/ \E r \in 1..Len(rows) : Len(ops) < MaxOps /\ handleTaskCompletion(r)
  \/ \E k \in 1..Len(ops) : readDone(k)
  \/ \E k \in 1..Len(ops) : writeDone(k)
  \/ \E f \in DOMAIN vault : \E c \in EditTexts : externalEdit(f, c)

SpecEdit == InitWith(TwoDocuments) /\ [][NextEdit]_vars

\* The store may fail, and documents may disappear from it.
NextGone ==
  \/ NextFail
  \/ \E f \in DOMAIN vault : externalDelete(f)

SpecGone == InitWith(TwoDocuments) /\ [][NextGone]_vars

\* A user who only searches: queries and flag changes over one document.
NextFilter ==
  \/ onOpen
  \/ getTasksStep
  \/ \E v \in FilterInputs : onInput(v)
  \/ onCompletedChange
  \/ toggleCompletedTasks
  \/ Tick
  \/ \E id \in TimerIds : timerFires(id)

SpecFilter == InitWith(FilterDocument) /\ [][NextFilter]_vars

\* The overlay opened on a vault of two documents drawn from the texts
\* above: the rebuild alone.
ExtractTexts ==
  {TextTwoOpen, TextOneDone, TextIndented, TextShifted, TextShort, TextUI,
   TextFilter}

InitExtract == \E v \in [{"f1", "f2"} -> ExtractTexts] : InitWith(v)

NextExtract ==
  \/ onOpen
  \/ getTasksStep

SpecExtract == InitExtract /\ [][NextExtract]_vars

\* One document, one completion handler at a time, and another writer.
ApplyDocument == "f1" :> TextTwoOpen

NextApply ==
  \/ onOpen
  \/ getTasksStep
  \/ \E v \in RaceInputs : onInput(v)
  \/ onCompletedChange
  \/ Tick
  \/ \E id \in TimerIds : timerFires(id)
  \/ \E r \in 1..Len(rows) : Len(ops) < MaxOps /\ handleTaskCompletion(r)
  \/ \E k \in 1..Len(ops) : readDone(k)
  \/ \E k \in 1..Len(ops) : writeDone(k)
  \/ \E c \in EditTexts : externalEdit("f1", c)

SpecApply == InitWith(ApplyDocument) /\ [][NextApply]_vars

\* A user who searches, moves the cursor and commits, over one document
\* that may disappear.  The host resolves openLinkText and runs the timer
\* of focusOnTask: a pending continuation is not put off for ever.
NextOpen ==
  \/ onOpen
  \/ getTasksStep
  \/ \E v \in InputValues : onInput(v)
  \/ onCompletedChange
  \/ Tick
  \/ \E id \in TimerIds : timerFires(id)
  \/ selectNextTask
  \/ Len(opening) < MaxOpening /\ onEnter
  \/ \E r \in 1..Len(rows) : Len(opening) < MaxOpening /\ onRowClick(r)
  \/ \E k \in 1..Len(opening) : openLinkDone(k)
  \/ \E k \in 1..Len(opening) : openLinkFails(k)
  \/ \E k \in 1..Len(opening) : focusOnTask(k)
  \/ onClose
  \/ \E f \in DOMAIN vault : externalDelete(f)

SpecOpen ==
  /\ InitWith(OneDocument)
  /\ [][NextOpen]_vars
  /\ WF_vars(\E k \in 1..Len(opening) : openLinkDone(k))
  /\ WF_vars(\E k \in 1..Len(opening) : focusOnTask(k))

\* A user who searches and moves the cursor, over three open tasks.
NextCursor ==
  \/ onOpen
  \/ getTasksStep
  \/ \E v \in CursorInputs : onInput(v)
  \/ Tick
  \/ \E id \in TimerIds : timerFires(id)
  \/ selectNextTask
  \/ selectPreviousTask

SpecCursor == InitWith(CursorDocument) /\ [][NextCursor]_vars

\* A user who searches, moves the cursor down and clicks result
\* checkboxes, over one document.
NextToggle ==
  \/ onOpen
  \/ getTasksStep
  \/ \E v \in RaceInputs : onInput(v)
  \/ onCompletedChange
  \/ Tick
  \/ \E id \in TimerIds : timerFires(id)
  \/ selectNextTask
  \/ \E r \in 1..Len(rows) : Len(ops) < MaxOps /\ handleTaskCompletion(r)
  \/ \E k \in 1..Len(ops) : readDone(k)
  \/ \E k \in 1..Len(ops) : writeDone(k)

SpecToggle == InitWith(OneDocument) /\ [][NextToggle]_vars

\* ------------------------------------------------------------ claims

\* C5: the selection cursor is -1 exactly when the filtered view is empty,
\* and otherwise it is an index into the view, after any sequence of query
\* edits, flag changes, debounce expiries, moves, row clicks and checkbox
\* toggles.
C5_CursorInView ==
  /\ (selectedTaskIndex = -1) <=> (Len(filteredTasks) = 0)
  /\ Len(filteredTasks) > 0 =>
       (0 <= selectedTaskIndex /\ selectedTaskIndex < Len(filteredTasks))

\* The cursor on the last of two rows while a toggle is in flight.
C5_Witness ==
  /\ Len(filteredTasks) = 2
  /\ selectedTaskIndex = 1
  /\ Len(ops) > 0

\* C6: debounce coalescing.  At most one re-filter is pending; between two
\* debouncedSearch calls, and after the last, at most one searchTasks pass
\* runs; a pass never runs sooner than the quiet period after the latest
\* call (so none runs inside a burst of calls less than the quiet period
\* apart); and the pass computes the view from the query and flag as they
\* are when it runs, i.e. as the last call left them.
C6_Coalescing ==
  /\ [](Cardinality(Pending) <= 1 /\ passes <= 1)
  /\ [][\A id \in TimerIds :
          timerFires(id) =>
            /\ sinceEvent >= Quiet
            /\ filteredTasks' = ViewFor(tasks, inputValue, completedChecked)]_vars

\* One pass has run after a burst of at least two calls, and found tasks.
C6_Witness ==
  /\ burst = 2
  /\ passes = 1
  /\ Len(filteredTasks) > 0

\* C7: Ctrl+L flips the flag and re-filters in the same step, not debounced:
\* the step of the command leaves in this.filteredTasks what a re-filter
\* pass computes from the query and the new flag.
C7_Immediate ==
  [][toggleCompletedTasks =>
       filteredTasks' = ViewFor(tasks, inputValue, completedChecked')]_vars

\* The lines of the document of record t, and whether the line the record
\* points at carries a checked marker.
LinesOf(t) == split(vault[tasks[t].filePath])

MarkerChecked(t) ==
  /\ tasks[t].lineNumber <= Len(LinesOf(t))
  /\ MarkerEnd(LinesOf(t)[tasks[t].lineNumber], 1, "x") > 0

\* No handler and no rebuild is suspended at an await.
Quiescent == ops = <<>> /\ rebuild.pc # "reading"

\* C1: no two completion handlers are in flight (between the start of the
\* read and the end of the write) on the same document.
C1_OneAtATimePerDocument ==
  \A i, j \in 1..Len(ops) : i < j => PathOf(ops[i]) # PathOf(ops[j])

\* C9: in every quiescent state, with a store that never fails and that
\* nobody else writes to, each record's completed flag equals the checked
\* state of the marker on its line.
C9_RecordMirrorsDocument ==
  Quiescent => \A t \in 1..Len(tasks) : tasks[t].completed = MarkerChecked(t)

\* The records of every document, as one rebuild from the current store
\* would list them, and the places (path, line) of a list of records.
FullCorpus ==
  LET F[i \in 0..Len(Files)] ==
        IF i = 0 THEN <<>>
        ELSE F[i - 1] \o getTasksFromFile(vault[Files[i]], Files[i])
  IN F[Len(Files)]

Places(ts) == [i \in 1..Len(ts) |-> <<ts[i].filePath, ts[i].lineNumber>>]

\* C4: a re-filter pass never reads this.tasks while it holds the records
\* of only some of the documents: it sees the previous record set (empty)
\* or the complete new one.
C4_RebuildIsAtomic ==
  [][\A id \in TimerIds :
       timerFires(id) => Places(tasks) \in {<<>>, Places(FullCorpus)}]_vars

\* C2: when vault.modify rejects, the document is as before and the
\* record's completed flag has the value it had before the toggle.
C2_FailedWriteChangesNothing ==
  [][\A k \in 1..Len(ops) :
       writeFails(k) =>
         /\ vault' = vault
         /\ tasks'[ops[k].task].completed = ops[k].prior]_vars

\* C10: when the rebuild has ended, every document of its listing whose
\* read did not fail has all of its tasks in the corpus, also those listed
\* after one whose read failed.
C10_UnreadableDocumentIsSkipped ==
  rebuild.pc \in {"done", "failed"} =>
    \A j \in 1..Len(rebuild.files) :
      LET f == rebuild.files[j]
      IN \/ rebuild.pc = "failed" /\ j = rebuild.i
         \/ \A i \in 1..Len(getTasksFromFile(vault[f], f)) :
              \E t \in 1..Len(tasks) :
                /\ tasks[t].filePath = f
                /\ tasks[t].lineNumber =
                     getTasksFromFile(vault[f], f)[i].lineNumber

\* The marker character of a completion state.
MarkOf(completed) == IF completed THEN "x" ELSE " "

\* The handler op finds its record stale in the text it has just read: the
\* record's line is past the end, or does not begin (after white space)
\* with the marker of the state the record had before the toggle.
Stale(op) ==
  LET lines == split(vault[PathOf(op)])
      n == tasks[op.task].lineNumber
  IN \/ n > Len(lines)
     \/ MarkerEnd(lines[n], 1, MarkOf(op.prior)) = 0

\* C3: a toggle that finds its record stale is aborted: it issues no write
\* (the handler ends instead of going on to vault.modify), the document is
\* untouched and the record's flag is back at its value before the toggle.
C3_StaleToggleIsAborted ==
  [][\A k \in 1..Len(ops) :
       (readDone(k) /\ Stale(ops[k])) =>
         /\ ops' = Remove(ops, k)
         /\ vault' = vault
         /\ tasks'[ops[k].task].completed = ops[k].prior]_vars

\* The text with only the character between the brackets of the marker
\* that starts line n replaced by the mark m.
TokenSwapped(content, n, m) ==
  LET lines == split(content)
      e == MarkerEnd(lines[n], 1, MarkOf(m = " "))
  IN join([lines EXCEPT ![n] = [lines[n] EXCEPT ![e - 1] = m]])

\* C8: a toggle whose record is not stale writes the text it read with
\* only the checkbox token of the target line changed: leading white space,
\* spacing inside the marker and all other lines are as they were.
C8_OnlyTheTokenChanges ==
  [][\A k \in 1..Len(ops) :
       (readDone(k) /\ ~Stale(ops[k])
          /\ tasks[ops[k].task].completed # ops[k].prior) =>
         /\ k \in 1..Len(ops')
         /\ ops'[k].pc = "write"
         /\ ops'[k].content =
              TokenSwapped(vault[PathOf(ops[k])],
                           tasks[ops[k].task].lineNumber,
                           MarkOf(tasks[ops[k].task].completed))]_vars

\* C11: a toggle on a record whose path no longer resolves to a file is
\* aborted: no document is written and the record's completed flag keeps
\* the value it had before the click.
C11_UnresolvedToggleIsAborted ==
  [][\A r \in 1..Len(rows) :
       (handleTaskCompletion(r) /\ ~exists[tasks[rows[r].task].filePath]) =>
         /\ vault' = vault
         /\ ops' = ops
         /\ tasks'[rows[r].task].completed = tasks[rows[r].task].completed]_vars

\* C12: every re-filter pass (searchTasks, or resetSearch through it)
\* leaves the cursor at 0 when the view it has computed is non-empty and at
\* -1 when it is empty, whatever the cursor was before the pass.
C12_PassResetsCursor ==
  [][\A id \in TimerIds :
       timerFires(id) =>
         selectedTaskIndex' = IF Len(filteredTasks') > 0 THEN 0 ELSE -1]_vars

\* A pass found the cursor on the second row and has left it on the first.
C12_Witness ==
  /\ passes = 1
  /\ cursorBefore = 1
  /\ selectedTaskIndex = 0
  /\ Len(filteredTasks) > 0

\* Unicode case folding (the simple foldings of CaseFolding.txt, Unicode
\* 17): the characters it changes and, position by position, what it makes
\* of them.  It maps each character by itself, whatever stands around it:
\* the capital sigma and the final sigma both fold to the small sigma.  An
\* image that no string can hold is named by its code point.
FoldFrom ==
  <<"A", "B", "C", "D", "E", "F", "G", "H", "I", "J", "K", "L", "M", "N",
   "O", "P", "Q", "R", "S", "T", "U", "V", "W", "X", "Y", "Z", "µ", "À", "Á",
   "Â", "Ã", "Ä", "Å", "Æ", "Ç", "È", "É", "Ê", "Ë", "Ì", "Í", "Î", "Ï", "Ð",
   "Ñ", "Ò", "Ó", "Ô", "Õ", "Ö", "Ø", "Ù", "Ú", "Û", "Ü", "Ý", "Þ", "Ɓ", "Ƃ",
   "Ƅ", "Ɔ", "Ƈ", "Ɖ", "Ɗ", "Ƌ", "Ǝ", "Ə", "Ɛ", "Ƒ", "Ɠ", "Ɣ", "Ɩ", "Ɨ", "Ƙ",
   "Ɯ", "Ɲ", "Ɵ", "Ơ", "Ƣ", "Ƥ", "Ʀ", "Ƨ", "Ʃ", "Ƭ", "Ʈ", "Ư", "Ʊ", "Ʋ", "Ƴ",
   "Ƶ", "Ʒ", "Ƹ", "Ƽ", "Ǆ", "ǅ", "Ǉ", "ǈ", "Ǌ", "ǋ", "Ǎ", "Ǐ", "Ǒ", "Ǔ", "Ǖ",
   "Ǘ", "Ǚ", "Ǜ", "Ǟ", "Ǡ", "Ǣ", "Ǥ", "Ǧ", "Ǩ", "Ǫ", "Ǭ", "Ǯ", "Ǳ", "ǲ", "Ǵ",
   "Ƕ", "Ƿ", "Ǹ", "Ǻ", "Ǽ", "Ǿ", "Ά", "Έ", "Ή", "Ί", "Ό", "Ύ", "Ώ", "Α", "Β",
   "Γ", "Δ", "Ε", "Ζ", "Η", "Θ", "Ι", "Κ", "Λ", "Μ", "Ν", "Ξ", "Ο", "Π", "Ρ",
   "Σ", "Τ", "Υ", "Φ", "Χ", "Ψ", "Ω", "Ϊ", "Ϋ", "ς", "Ϗ", "ϐ", "ϑ", "ϕ", "ϖ",
   "Ϙ", "Ϛ", "Ϝ", "Ϟ", "Ϡ", "Ϣ", "Ϥ", "Ϧ", "Ϩ", "Ϫ", "Ϭ", "Ϯ", "ϰ", "ϱ", "ϴ",
   "ϵ", "Ϸ", "Ϲ", "Ϻ", "Ͻ", "Ͼ", "Ͽ", "Ҁ", "Ҋ", "Ҍ", "Ҏ", "Ґ", "Ғ", "Ҕ", "Җ",
   "Ҙ", "Қ", "Ҝ", "Ҟ", "Ҡ", "Ң", "Ҥ", "Ҧ", "Ҩ", "Ҫ", "Ҭ", "Ү", "Ұ", "Ҳ", "Ҵ",
   "Ҷ", "Ҹ", "Һ", "Ҽ", "Ҿ", "Ӏ", "Ӂ", "Ӄ", "Ӆ", "Ӈ", "Ӊ", "Ӌ", "Ӎ", "Ӑ", "Ӓ",
   "Ӕ", "Ӗ", "Ә", "Ӛ", "Ӝ", "Ӟ", "Ӡ", "Ӣ", "Ӥ", "Ӧ", "Ө", "Ӫ", "Ӭ", "Ӯ", "Ӱ",
   "Ӳ", "Ӵ", "Ӷ", "Ӹ", "Ӻ", "Ӽ", "Ӿ", "Ⴀ", "Ⴁ", "Ⴂ", "Ⴃ", "Ⴄ", "Ⴅ", "Ⴆ", "Ⴇ",
   "Ⴈ", "Ⴉ", "Ⴊ", "Ⴋ", "Ⴌ", "Ⴍ", "Ⴎ", "Ⴏ", "Ⴐ", "Ⴑ", "Ⴒ", "Ⴓ", "Ⴔ", "Ⴕ", "Ⴖ",
   "Ⴗ", "Ⴘ", "Ⴙ", "Ⴚ", "Ⴛ", "Ⴜ", "Ⴝ", "Ⴞ", "Ⴟ", "Ⴠ", "Ⴡ", "Ⴢ", "Ⴣ", "Ⴤ", "Ⴥ",
   "Ⴧ", "Ⴭ", "ᏸ", "ᏹ", "ᏺ", "ᏻ", "ᏼ", "ᏽ", "ᲀ", "ᲁ", "ᲂ", "ᲃ", "ᲄ", "ᲅ", "ᲆ",
   "ᲇ", "ᲈ", "Ᲊ", "Ა", "Ბ", "Გ", "Დ", "Ე", "Ვ", "Ზ", "Თ", "Ი", "Კ", "Ლ", "Მ",
   "Ნ", "Ო", "Პ", "Ჟ", "Რ", "Ს", "Ტ", "Უ", "Ფ", "Ქ", "Ღ", "Ყ", "Შ", "Ჩ", "Ც",
   "Ძ", "Წ", "Ჭ", "Ხ", "Ჯ", "Ჰ", "Ჱ", "Ჲ", "Ჳ", "Ჴ", "Ჵ", "Ჶ", "Ჷ", "Ჸ", "Ჹ",
   "Ჺ", "Ჽ", "Ჾ", "Ჿ", "Ẁ", "Ẃ", "Ẅ", "Ẇ", "Ẉ", "Ẋ", "Ẍ", "Ẏ", "Ẑ", "Ẓ", "Ẕ",
   "ẛ", "ẞ", "Ạ", "Ả", "Ấ", "Ầ", "Ẩ", "Ẫ", "Ậ", "Ắ", "Ằ", "Ẳ", "Ẵ", "Ặ", "Ẹ",
   "Ẻ", "Ẽ", "Ế", "Ề", "Ể", "Ễ", "Ệ", "Ỉ", "Ị", "Ọ", "Ỏ", "Ố", "Ồ", "Ổ", "Ỗ",
   "Ộ", "Ớ", "Ờ", "Ở", "Ỡ", "Ợ", "Ụ", "Ủ", "Ứ", "Ừ", "Ử", "Ữ", "Ự", "Ỳ", "Ỵ",
   "Ỷ", "Ỹ", "Ỻ", "Ỽ", "Ỿ", "ᾈ", "ᾉ", "ᾊ", "ᾋ", "ᾌ", "ᾍ", "ᾎ", "ᾏ", "ᾘ", "ᾙ",
   "ᾚ", "ᾛ", "ᾜ", "ᾝ", "ᾞ", "ᾟ", "ᾨ", "ᾩ", "ᾪ", "ᾫ", "ᾬ", "ᾭ", "ᾮ", "ᾯ", "Ᾰ",
   "Ᾱ", "Ὰ", "Ά", "ᾼ", "ι", "Ὲ", "Έ", "Ὴ", "Ή", "ῌ", "Ῐ", "Ῑ", "Ὶ", "Ί", "Ῠ",
   "Ῡ", "Ὺ", "Ύ", "Ῥ", "Ὸ", "Ό", "Ὼ", "Ώ", "ῼ", "Ↄ", "Ⓐ", "Ⓑ", "Ⓒ", "Ⓓ", "Ⓔ",
   "Ⓕ", "Ⓖ", "Ⓗ", "Ⓘ", "Ⓙ", "Ⓚ", "Ⓛ", "Ⓜ", "Ⓝ", "Ⓞ", "Ⓟ", "Ⓠ", "Ⓡ", "Ⓢ", "Ⓣ",
   "Ⓤ", "Ⓥ", "Ⓦ", "Ⓧ", "Ⓨ", "Ⓩ", "Ⲁ", "Ⲃ", "Ⲅ", "Ⲇ", "Ⲉ", "Ⲋ", "Ⲍ", "Ⲏ", "Ⲑ",
   "Ⲓ", "Ⲕ", "Ⲗ", "Ⲙ", "Ⲛ", "Ⲝ", "Ⲟ", "Ⲡ", "Ⲣ", "Ⲥ", "Ⲧ", "Ⲩ", "Ⲫ", "Ⲭ", "Ⲯ",
   "Ⲱ", "Ⲳ", "Ⲵ", "Ⲷ", "Ⲹ", "Ⲻ", "Ⲽ", "Ⲿ", "Ⳁ", "Ⳃ", "Ⳅ", "Ⳇ", "Ⳉ", "Ⳋ", "Ⳍ",
   "Ⳏ", "Ⳑ", "Ⳓ", "Ⳕ", "Ⳗ", "Ⳙ", "Ⳛ", "Ⳝ", "Ⳟ", "Ⳡ", "Ⳣ", "Ⳬ", "Ⳮ", "Ⳳ", "Ꚁ",
   "Ꚃ", "Ꚅ", "Ꚇ", "Ꚉ", "Ꚋ", "Ꚍ", "Ꚏ", "Ꚑ", "Ꚓ", "Ꚕ", "Ꚗ", "Ꚙ", "Ꚛ", "Ꞁ", "Ꞃ",
   "Ꞅ", "Ꞇ", "Ꞌ", "Ɥ", "Ꞑ", "Ꞓ", "Ꞗ", "Ꞙ", "Ꞛ", "Ꞝ", "Ꞟ", "Ꞡ", "Ꞣ", "Ꞥ", "Ꞧ",
   "Ꞩ", "Ɦ", "Ɜ", "Ɡ", "Ɬ", "Ɪ", "Ʞ", "Ʇ", "Ʝ", "Ꭓ", "Ꞵ", "Ꞷ", "Ꞹ", "Ꞻ", "Ꞽ",
   "Ꞿ", "Ꟁ", "Ꟃ", "Ꞔ", "Ʂ", "Ᶎ", "Ꟈ", "Ꟊ", "Ɤ", "Ꟍ", "꟎", "Ꟑ", "꟒", "꟔", "Ꟗ",
   "Ꟙ", "Ꟛ", "Ƛ", "Ꟶ", "ꮀ", "ꮁ", "ꮂ", "ꮃ", "ꮄ", "ꮅ", "ꮆ", "ꮇ", "ꮈ", "ꮉ", "ꮊ",
   "ꮋ", "ꮌ", "ꮍ", "ꮎ", "ꮏ", "ꮐ", "ꮑ", "ꮒ", "ꮓ", "ꮔ", "ꮕ", "ꮖ", "ꮗ", "ꮘ", "ꮙ",
   "ꮚ", "ꮛ", "ꮜ", "ꮝ", "ꮞ", "ꮟ", "ꮠ", "ꮡ", "ꮢ", "ꮣ", "ꮤ", "ꮥ", "ꮦ", "ꮧ", "ꮨ",
   "ꮩ", "ꮪ", "ꮫ", "ꮬ", "ꮭ", "ꮮ", "ꮯ", "ꮰ", "ꮱ", "ꮲ", "ꮳ", "ꮴ", "ꮵ", "ꮶ", "ꮷ",
   "ꮸ", "ꮹ", "ꮺ", "ꮻ", "ꮼ", "ꮽ", "ꮾ", "ꮿ">>

FoldTo ==
  <<"a", "b", "c", "d", "e", "f", "g", "h", "i", "j", "k", "l", "m", "n",
   "o", "p", "q", "r", "s", "t", "u", "v", "w", "x", "y", "z", "μ", "à", "á",
   "â", "ã", "ä", "å", "æ", "ç", "è", "é", "ê", "ë", "ì", "í", "î", "ï", "ð",
   "ñ", "ò", "ó", "ô", "õ", "ö", "ø", "ù", "ú", "û", "ü", "ý", "þ", "U+0253",
   "ƃ", "ƅ", "U+0254", "ƈ", "U+0256", "U+0257", "ƌ", "ǝ", "U+0259", "U+025B",
   "ƒ", "U+0260", "U+0263", "U+0269", "U+0268", "ƙ", "U+026F", "U+0272",
   "U+0275", "ơ", "ƣ", "ƥ", "ʀ", "ƨ", "ʃ", "ƭ", "ʈ", "ư", "ʊ", "ʋ", "ƴ", "ƶ",
   "ʒ", "ƹ", "ƽ", "ǆ", "ǆ", "ǉ", "ǉ", "ǌ", "ǌ", "ǎ", "ǐ", "ǒ", "ǔ", "ǖ", "ǘ",
   "ǚ", "ǜ", "ǟ", "ǡ", "ǣ", "ǥ", "ǧ", "ǩ", "ǫ", "ǭ", "ǯ", "ǳ", "ǳ", "ǵ", "ƕ",
   "ƿ", "ǹ", "ǻ", "ǽ", "ǿ", "ά", "έ", "ή", "ί", "ό", "ύ", "ώ", "α", "β", "γ",
   "δ", "ε", "ζ", "η", "θ", "ι", "κ", "λ", "μ", "ν", "ξ", "ο", "π", "ρ", "σ",
   "τ", "υ", "φ", "χ", "ψ", "ω", "ϊ", "ϋ", "σ", "ϗ", "β", "θ", "φ", "π", "ϙ",
   "ϛ", "ϝ", "ϟ", "ϡ", "ϣ", "ϥ", "ϧ", "ϩ", "ϫ", "ϭ", "ϯ", "κ", "ρ", "θ", "ε",
   "ϸ", "ϲ", "ϻ", "U+037B", "U+037C", "U+037D", "ҁ", "ҋ", "ҍ", "ҏ", "ґ", "ғ",
   "ҕ", "җ", "ҙ", "қ", "ҝ", "ҟ", "ҡ", "ң", "ҥ", "ҧ", "ҩ", "ҫ", "ҭ", "ү", "ұ",
   "ҳ", "ҵ", "ҷ", "ҹ", "һ", "ҽ", "ҿ", "ӏ", "ӂ", "ӄ", "ӆ", "ӈ", "ӊ", "ӌ", "ӎ",
   "ӑ", "ӓ", "ӕ", "ӗ", "ә", "ӛ", "ӝ", "ӟ", "ӡ", "ӣ", "ӥ", "ӧ", "ө", "ӫ", "ӭ",
   "ӯ", "ӱ", "ӳ", "ӵ", "ӷ", "ӹ", "ӻ", "ӽ", "ӿ", "U+2D00", "U+2D01", "U+2D02",
   "U+2D03", "U+2D04", "U+2D05", "U+2D06", "U+2D07", "U+2D08", "U+2D09",
   "U+2D0A", "U+2D0B", "U+2D0C", "U+2D0D", "U+2D0E", "U+2D0F", "U+2D10",
   "U+2D11", "U+2D12", "U+2D13", "U+2D14", "U+2D15", "U+2D16", "U+2D17",
   "U+2D18", "U+2D19", "U+2D1A", "U+2D1B", "U+2D1C", "U+2D1D", "U+2D1E",
   "U+2D1F", "U+2D20", "U+2D21", "U+2D22", "U+2D23", "U+2D24", "U+2D25",
   "U+2D27", "U+2D2D", "Ᏸ", "Ᏹ", "Ᏺ", "Ᏻ", "Ᏼ", "Ᏽ", "U+0432", "U+0434",
   "U+043E", "U+0441", "U+0442", "U+0442", "U+044A", "U+0463", "U+A64B", "ᲊ",
   "ა", "ბ", "გ", "დ", "ე", "ვ", "ზ", "თ", "ი", "კ", "ლ", "მ", "ნ", "ო", "პ",
   "ჟ", "რ", "ს", "ტ", "უ", "ფ", "ქ", "ღ", "ყ", "შ", "ჩ", "ც", "ძ", "წ", "ჭ",
   "ხ", "ჯ", "ჰ", "ჱ", "ჲ", "ჳ", "ჴ", "ჵ", "ჶ", "ჷ", "ჸ", "ჹ", "ჺ", "ჽ", "ჾ",
   "ჿ", "ẁ", "ẃ", "ẅ", "ẇ", "ẉ", "ẋ", "ẍ", "ẏ", "ẑ", "ẓ", "ẕ", "U+1E61", "ß",
   "ạ", "ả", "ấ", "ầ", "ẩ", "ẫ", "ậ", "ắ", "ằ", "ẳ", "ẵ", "ặ", "ẹ", "ẻ", "ẽ",
   "ế", "ề", "ể", "ễ", "ệ", "ỉ", "ị", "ọ", "ỏ", "ố", "ồ", "ổ", "ỗ", "ộ", "ớ",
   "ờ", "ở", "ỡ", "ợ", "ụ", "ủ", "ứ", "ừ", "ử", "ữ", "ự", "ỳ", "ỵ", "ỷ", "ỹ",
   "ỻ", "ỽ", "ỿ", "ᾀ", "ᾁ", "ᾂ", "ᾃ", "ᾄ", "ᾅ", "ᾆ", "ᾇ", "ᾐ", "ᾑ", "ᾒ", "ᾓ",
   "ᾔ", "ᾕ", "ᾖ", "ᾗ", "ᾠ", "ᾡ", "ᾢ", "ᾣ", "ᾤ", "ᾥ", "ᾦ", "ᾧ", "ᾰ", "ᾱ",
   "U+1F70", "U+1F71", "ᾳ", "ι", "U+1F72", "U+1F73", "U+1F74", "U+1F75", "ῃ",
   "ῐ", "ῑ", "U+1F76", "U+1F77", "ῠ", "ῡ", "U+1F7A", "U+1F7B", "ῥ", "U+1F78",
   "U+1F79", "U+1F7C", "U+1F7D", "ῳ", "ↄ", "ⓐ", "ⓑ", "ⓒ", "ⓓ", "ⓔ", "ⓕ", "ⓖ",
   "ⓗ", "ⓘ", "ⓙ", "ⓚ", "ⓛ", "ⓜ", "ⓝ", "ⓞ", "ⓟ", "ⓠ", "ⓡ", "ⓢ", "ⓣ", "ⓤ", "ⓥ",
   "ⓦ", "ⓧ", "ⓨ", "ⓩ", "ⲁ", "ⲃ", "ⲅ", "ⲇ", "ⲉ", "ⲋ", "ⲍ", "ⲏ", "ⲑ", "ⲓ", "ⲕ",
   "ⲗ", "ⲙ", "ⲛ", "ⲝ", "ⲟ", "ⲡ", "ⲣ", "ⲥ", "ⲧ", "ⲩ", "ⲫ", "ⲭ", "ⲯ", "ⲱ", "ⲳ",
   "ⲵ", "ⲷ", "ⲹ", "ⲻ", "ⲽ", "ⲿ", "ⳁ", "ⳃ", "ⳅ", "ⳇ", "ⳉ", "ⳋ", "ⳍ", "ⳏ", "ⳑ",
   "ⳓ", "ⳕ", "ⳗ", "ⳙ", "ⳛ", "ⳝ", "ⳟ", "ⳡ", "ⳣ", "ⳬ", "ⳮ", "ⳳ", "ꚁ", "ꚃ", "ꚅ",
   "ꚇ", "ꚉ", "ꚋ", "ꚍ", "ꚏ", "ꚑ", "ꚓ", "ꚕ", "ꚗ", "ꚙ", "ꚛ", "ꞁ", "ꞃ", "ꞅ", "ꞇ",
   "ꞌ", "U+0265", "ꞑ", "ꞓ", "ꞗ", "ꞙ", "ꞛ", "ꞝ", "ꞟ", "ꞡ", "ꞣ", "ꞥ", "ꞧ", "ꞩ",
   "U+0266", "U+025C", "U+0261", "U+026C", "U+026A", "ʞ", "ʇ", "ʝ", "U+AB53",
   "ꞵ", "ꞷ", "ꞹ", "ꞻ", "ꞽ", "ꞿ", "ꟁ", "ꟃ", "ꞔ", "ʂ", "ᶎ", "ꟈ", "ꟊ", "U+0264",
   "ꟍ", "꟏", "ꟑ", "ꟓ", "ꟕ", "ꟗ", "ꟙ", "ꟛ", "ƛ", "ꟶ", "Ꮀ", "Ꮁ", "Ꮂ", "Ꮃ", "Ꮄ",
   "Ꮅ", "Ꮆ", "Ꮇ", "Ꮈ", "Ꮉ", "Ꮊ", "Ꮋ", "Ꮌ", "Ꮍ", "Ꮎ", "Ꮏ", "Ꮐ", "Ꮑ", "Ꮒ", "Ꮓ",
   "Ꮔ", "Ꮕ", "Ꮖ", "Ꮗ", "Ꮘ", "Ꮙ", "Ꮚ", "Ꮛ", "Ꮜ", "Ꮝ", "Ꮞ", "Ꮟ", "Ꮠ", "Ꮡ", "Ꮢ",
   "Ꮣ", "Ꮤ", "Ꮥ", "Ꮦ", "Ꮧ", "Ꮨ", "Ꮩ", "Ꮪ", "Ꮫ", "Ꮬ", "Ꮭ", "Ꮮ", "Ꮯ", "Ꮰ", "Ꮱ",
   "Ꮲ", "Ꮳ", "Ꮴ", "Ꮵ", "Ꮶ", "Ꮷ", "Ꮸ", "Ꮹ", "Ꮺ", "Ꮻ", "Ꮼ", "Ꮽ", "Ꮾ", "Ꮿ">>

FoldOf ==
  [c \in {FoldFrom[i] : i \in 1..Len(FoldFrom)} |->
     FoldTo[CHOOSE i \in 1..Len(FoldFrom) : FoldFrom[i] = c]]

CaseFolding(c) == IF c \in DOMAIN FoldOf THEN FoldOf[c] ELSE c

\* The reference filter: text contains q, both case-folded, at some
\* offset, and the completed flag equals want.
RefContains(text, q) ==
  \E i \in 0..(Len(text) - Len(q)) :
    \A j \in 1..Len(q) : CaseFolding(text[i + j]) = CaseFolding(q[j])

RefKeep(ts, q, want) ==
  {i \in 1..Len(ts) : RefContains(ts[i].text, q) /\ ts[i].completed = want}

\* ft lists exactly the positions in S, in corpus order, each once.
IsOrderedSubset(ft, S) ==
  /\ \A i \in 1..(Len(ft) - 1) : ft[i] < ft[i + 1]
  /\ {ft[i] : i \in 1..Len(ft)} = S

\* C13: a pass with a query that is not empty after trimming leaves as the
\* view exactly the records the reference filter keeps, in corpus order;
\* and for every query the views for the two flag values share no record.
C13_ViewIsReferenceFilter ==
  /\ [](\A q \in FilterInputs :
          RefKeep(tasks, q, TRUE) \cap RefKeep(tasks, q, FALSE) = {}
          /\ {FilterRefs(tasks, toLowerCase(q), TRUE)[i] :
                i \in 1..Len(FilterRefs(tasks, toLowerCase(q), TRUE))}
             \cap {FilterRefs(tasks, toLowerCase(q), FALSE)[i] :
                i \in 1..Len(FilterRefs(tasks, toLowerCase(q), FALSE))} = {})
  /\ [][\A id \in TimerIds :
          (timerFires(id) /\ trim(inputValue) # <<>>) =>
            IsOrderedSubset(filteredTasks',
                            RefKeep(tasks, inputValue, completedChecked))]_vars

\* C14: a pass with a query that is empty after trimming leaves the view
\* empty and the cursor at -1, for either flag value.
C14_BlankQueryShowsNothing ==
  [][\A id \in TimerIds :
       (timerFires(id) /\ trim(inputValue) = <<>>) =>
         /\ filteredTasks' = <<>>
         /\ rows' = <<>>
         /\ selectedTaskIndex' = -1]_vars

\* A pass for a query of two spaces, with the flag set and a corpus of five
\* records, has emptied a view that was not empty.
C14_Witness ==
  /\ passes = 1
  /\ inputValue = <<" ", " ">>
  /\ completedChecked
  /\ Len(tasks) = 5
  /\ cursorBefore = 0
  /\ filteredTasks = <<>>
  /\ selectedTaskIndex = -1

\* The records the pattern ^\s*-\s*\[[ x]\] gives for one document: one for
\* each line it matches at the start, in line order, with the rest of the
\* line trimmed as text.
RefMarkerEnd(line) ==
  IF MarkerEnd(line, 1, "x") > 0 THEN MarkerEnd(line, 1, "x")
  ELSE MarkerEnd(line, 1, " ")

RefRecords(content, path) ==
  LET lines == split(content)
      F[i \in 0..Len(lines)] ==
        IF i = 0 THEN <<>>
        ELSE IF RefMarkerEnd(lines[i]) = 0 THEN F[i - 1]
        ELSE Append(F[i - 1],
               [text       |-> trim(SubSeq(lines[i], RefMarkerEnd(lines[i]) + 1,
                                           Len(lines[i]))),
                completed  |-> MarkerEnd(lines[i], 1, "x") > 0,
                filePath   |-> path,
                lineNumber |-> i])
  IN F[Len(lines)]

\* C15: when the rebuild has read every document, the corpus holds, for
\* each document in turn, exactly the records of the lines that match the
\* pattern at their start (leading white space allowed), in line order,
\* with the trimmed remainder as text, completed iff the marker is [x],
\* and the 1-based line index.
C15_ExtractionMatchesPattern ==
  rebuild.pc = "done" =>
    tasks = RefRecords(vault["f1"], "f1") \o RefRecords(vault["f2"], "f2")

\* C16: the text a toggle has computed for its record and target state is
\* a fixed point: applying the same record with the same target state to
\* it once more gives that text again, for both target states.
C16_SecondApplicationIsNoOp ==
  [][\A k \in 1..Len(ops) :
       (readDone(k) /\ ~updateThrows(vault[PathOf(ops[k])], tasks[ops[k].task]))
         => /\ ~updateThrows(ops'[k].content, tasks[ops[k].task])
            /\ updateTaskInContent(ops'[k].content, tasks[ops[k].task])
                 = ops'[k].content]_vars

\* An unchecking toggle waits to write a text that differs from the
\* document it read.
C16_Witness ==
  \E k \in 1..Len(ops) :
    /\ ops[k].pc = "write"
    /\ ~tasks[ops[k].task].completed
    /\ ops[k].content # vault[PathOf(ops[k])]

\* C17: a click on the checkbox of a result row sets the completed flag of
\* that row's record and nothing else of the controller state, in every
\* step of its handler: the cursor, the other records, the members and
\* order of the view and of the corpus stay, and no rebuild starts.
C17_ToggleFrame ==
  /\ [][\A r \in 1..Len(rows) :
          handleTaskCompletion(r) =>
            /\ tasks' = [tasks EXCEPT ![rows[r].task].completed =
                                        ~rows[r].checked]
            /\ tasks[rows[r].task].completed = rows[r].checked
            /\ selectedTaskIndex' = selectedTaskIndex
            /\ filteredTasks' = filteredTasks
            /\ rebuild' = rebuild]_vars
  /\ [][\A k \in 1..Len(ops) :
          (readDone(k) \/ writeDone(k)) =>
            /\ tasks' = tasks
            /\ selectedTaskIndex' = selectedTaskIndex
            /\ filteredTasks' = filteredTasks
            /\ [i \in 1..Len(rows') |-> rows'[i].task] = filteredTasks
            /\ rebuild' = rebuild]_vars

\* The handler of a checkbox click has finished its write while the cursor
\* is on the second of two rows, and the record it has checked stays in a
\* view of open tasks.
C17_Witness ==
  /\ ops = <<>>
  /\ selectedTaskIndex = 1
  /\ Len(filteredTasks) = 2
  /\ ~completedChecked
  /\ passes = 1
  /\ \E i \in 1..2 :
       /\ tasks[filteredTasks[i]].completed
       /\ MarkerChecked(filteredTasks[i])

\* The editor has the focus with its cursor on the line of record t.
FocusedOn(t) ==
  /\ editor.focused
  /\ editor.file = tasks[t].filePath
  /\ editor.line = tasks[t].lineNumber - 1

\* C18: after every task-open commit (Enter on the selected record, or a
\* click on a row) the overlay is eventually closed with the editor's
\* focus on the line of the committed record.
C18_CommitClosesAndFocuses ==
  [](commit # 0 => <>(modal = "closed" /\ FocusedOn(commit)))

\* C19: in a view of L >= 1 rows, L moves down in a row bring the cursor
\* back to where the first of them began, and so do L moves up; one move
\* down from the last row gives the first, one move up from the first
\* gives the last.
C19_CursorWraps ==
  (streak.dir # "none" /\ Len(filteredTasks) >= 1) =>
    /\ streak.n = Len(filteredTasks) => selectedTaskIndex = streak.from
    /\ (streak.dir = "down" /\ streak.n = 1
          /\ streak.from = Len(filteredTasks) - 1) => selectedTaskIndex = 0
    /\ (streak.dir = "up" /\ streak.n = 1 /\ streak.from = 0)
         => selectedTaskIndex = Len(filteredTasks) - 1

\* Three moves down in a view of three rows, begun on the second row.
C19_Witness ==
  /\ Len(filteredTasks) = 3
  /\ streak = [dir |-> "down", from |-> 1, n |-> 3]
  /\ selectedTaskIndex = 1

\* C20: a re-filter pass is one step.  The view is replaced by passes only
\* and by no other handler; a pass reads the query and the flag, leaves them
\* and the corpus as they are, and replaces the view and the cursor
\* together, the view by what these values select and the cursor by the
\* reset value for it.  So the view any handler sees is the one the most
\* recent expiry computed, with the cursor that belongs to it.
C20_PassIsAtomic ==
  /\ [][filteredTasks' # filteredTasks => \E id \in TimerIds : timerFires(id)]_vars
  /\ [][\A id \in TimerIds :
          timerFires(id) =>
            /\ UNCHANGED <<form, tasks>>
            /\ filteredTasks' = ViewFor(tasks, inputValue, completedChecked)
            /\ selectedTaskIndex' = IF Len(filteredTasks') > 0 THEN 0 ELSE -1
            /\ [i \in 1..Len(rows') |-> rows'[i].task] = filteredTasks']_vars

\* With a toggle in flight and a new re-filter pending after a flag change,
\* the view is still the one of the most recent expiry, which is not what
\* the form selects now.
C20_Witness ==
  /\ debounceTimer \in Pending
  /\ passes = 0
  /\ Len(ops) > 0
  /\ Len(filteredTasks) > 0
  /\ filteredTasks # ViewFor(tasks, inputValue, completedChecked)
  /\ filteredTasks = ViewFor(tasks, inputValue, ~completedChecked)

====
